---- MODULE Spec2Model ----
(***************************************************************************)
(* Model of the mba-wasm core: modular integers, the scalar congruence     *)
(* solver, diagonalization, the affine-lattice solver and the rewriter.    *)
(* Every subsystem keeps its state in one record variable whose fields     *)
(* carry the names of the locals of the function it models.                *)
(***************************************************************************)
EXTENDS Integers, Sequences, FiniteSets, TLC

\* The frames of solve_scalar_congruence, diagonalize, solve_congruences and rewrite.
VARIABLES sc, dg, sv, rw

\* The frame of obfuscate_expr, the polynomial under work, the Bits<N> value
\* under work and the heap of Rc<Expr> nodes.
VARIABLES ob, pp, bi, ex

\* The polynomials an operator of Polynomial is applied to, the LUExpr that
\* is printed and parsed, and the frames of solve_scalar_congruence_mod and
\* Matrix::try_map.
VARIABLES pl, lx, sm, tm

\* The variables only their own functions touch.
more == <<pl, lx, sm, tm>>

\* The variables the solver and the rewriter never touch.
ext == <<ob, pp, bi, ex, more>>

vars == <<sc, dg, sv, rw, ext>>

(***************************************************************************)
(* Bounds of the model.                                                    *)
(***************************************************************************)
\* Small bit widths n, next to the 8 bits of Wrapping<u8>, for the scalar solver.
MaxBits == 3

\* The rewriter is given at most MaxOps operations.
MaxOps == 3

\* Matrix and vector entries are drawn from 0 .. MaxEntry and -1.
MaxEntry == 2

\* Parsed polynomials have at most MaxPolyLen coefficients, drawn from
\* 0 .. MaxCoeff and -1.
MaxPolyLen == 4
MaxCoeff == 2

\* The matrices of texts that are parsed have at most MaxDim rows and columns.
MaxDim == 3

\* The smallest width the pages dispatch to (Wrapping<u8>).
U8 == 8

\* The frames of functions that have not been called.
ScalarIdle == [pc |-> "idle"]

DiagIdle == [pc |-> "idle"]

SolveIdle == [pc |-> "idle"]

RewriteIdle == [pc |-> "idle"]

\* The frame of any other function that has not been called.
NotCalled == [pc |-> "idle"]

\* None of the other functions has been called.
MoreIdle == pl = NotCalled /\ lx = NotCalled /\ sm = NotCalled /\ tm = NotCalled

ExtIdle == ob = NotCalled /\ pp = NotCalled /\ bi = NotCalled /\ ex = NotCalled /\ MoreIdle

(***************************************************************************)
(* Modular integers: Wrapping<uN> arithmetic on representatives 0..2^n-1.  *)
(***************************************************************************)
Modulus(n) == 2^n

Mn(n) == 0 .. (Modulus(n) - 1)

add(x, y, n) == (x + y) % Modulus(n)

sub(x, y, n) == (x - y) % Modulus(n)

mul(x, y, n) == (x * y) % Modulus(n)

\* Division of representatives; the result needs no wrapping.
div(x, y) == x \div y

zero == 0

one == 1

(***************************************************************************)
(* solve_scalar_congruence                                                 *)
(***************************************************************************)
None == <<>>

Some(x) == <<x>>

\* The locals before lines 63-65 have run.
EuclidUnset == [old_r |-> zero, r |-> zero, old_t |-> zero, t |-> zero, q |-> zero]

\* The state on entry to the loop: the first quotient stands in for 2^n / a.
EuclidInit(a, n) ==
    [old_r |-> zero, r |-> a, old_t |-> zero, t |-> one,
     q |-> add(div(sub(zero, a, n), a), one, n)]

\* EuclidUpdate with the Bezout update adding instead of subtracting.
EuclidUpdateAddsT(st, n) ==
    [st EXCEPT !.old_r = st.r, !.r = sub(st.old_r, mul(st.q, st.r, n), n),
               !.old_t = st.t, !.t = add(st.old_t, mul(st.q, st.t, n), n)]

\* One pass over the body of the loop, up to the test of r.
EuclidUpdate(st, n) ==
    [st EXCEPT !.old_r = st.r, !.r = sub(st.old_r, mul(st.q, st.r, n), n),
               !.old_t = st.t, !.t = sub(st.old_t, mul(st.q, st.t, n), n)]

\* The quotient for the next pass, taken when r is not zero.
EuclidQuotient(st) == [st EXCEPT !.q = div(st.old_r, st.r)]

\* ScalarResult returning the Bezout coefficient old_t as the kernel.
ScalarResultKernelOldT(a, b, st, n) ==
    LET gcd == st.old_r
        x == mul(div(b, gcd), st.old_t, n)
    IN  IF mul(a, x, n) # b THEN None ELSE Some(<<x, st.old_t>>)

\* ScalarResult returning twice the kernel generator.
ScalarResultDoubleKernel(a, b, st, n) ==
    LET gcd == st.old_r
        x == mul(div(b, gcd), st.old_t, n)
    IN  IF mul(a, x, n) # b THEN None ELSE Some(<<x, add(st.t, st.t, n)>>)

\* What is returned once the loop has been left.
ScalarResult(a, b, st, n) ==
    LET gcd == st.old_r
        x == mul(div(b, gcd), st.old_t, n)
    IN  IF mul(a, x, n) # b THEN None ELSE Some(<<x, st.t>>)

\* The early return for a = 0.
ScalarZeroCase(b) == IF b = zero THEN Some(<<zero, one>>) ELSE None

RECURSIVE EuclidLoop(_, _)
EuclidLoop(st, n) ==
    LET u == EuclidUpdate(st, n)
    IN  IF u.r = zero THEN u ELSE EuclidLoop(EuclidQuotient(u), n)

\* The function as a whole.
solve_scalar_congruence(a, b, n) ==
    IF a = zero THEN ScalarZeroCase(b)
    ELSE ScalarResult(a, b, EuclidLoop(EuclidInit(a, n), n), n)

(***************************************************************************)
(* Bitwise operations of the modular integers.                             *)
(***************************************************************************)
RECURSIVE bitand(_, _, _)
bitand(x, y, w) ==
    IF w = 0 THEN 0
    ELSE (x % 2) * (y % 2) + 2 * bitand(x \div 2, y \div 2, w - 1)

RECURSIVE bitor(_, _, _)
bitor(x, y, w) ==
    IF w = 0 THEN 0
    ELSE (IF x % 2 = 1 \/ y % 2 = 1 THEN 1 ELSE 0)
            + 2 * bitor(x \div 2, y \div 2, w - 1)

RECURSIVE bitxor(_, _, _)
bitxor(x, y, w) ==
    IF w = 0 THEN 0
    ELSE ((x + y) % 2) + 2 * bitxor(x \div 2, y \div 2, w - 1)

not(x, w) == Modulus(w) - 1 - x

(***************************************************************************)
(* UExpr and LUExpr.  A UExpr is [op, name, args]; an LUExpr is a sequence *)
(* of <<coefficient, UExpr>> pairs.                                        *)
(***************************************************************************)
Ones == [op |-> "Ones", name |-> "", args |-> <<>>]

Var(c) == [op |-> "Var", name |-> c, args |-> <<>>]

Not(e) == [op |-> "Not", name |-> "", args |-> <<e>>]

And(l, r) == [op |-> "And", name |-> "", args |-> <<l, r>>]

Or(l, r) == [op |-> "Or", name |-> "", args |-> <<l, r>>]

Xor(l, r) == [op |-> "Xor", name |-> "", args |-> <<l, r>>]

RECURSIVE UExprVars(_)
\* UExpr::vars_impl: the names of the variables of e.
UExprVars(e) ==
    CASE e.op = "Ones" -> {}
      [] e.op = "Var" -> {e.name}
      [] e.op = "Not" -> UExprVars(e.args[1])
      [] OTHER -> UExprVars(e.args[1]) \cup UExprVars(e.args[2])

\* LUExpr::vars_impl
LUExprVars(l) == UNION {UExprVars(l[x][2]) : x \in DOMAIN l}

RECURSIVE UExprEval(_, _, _)
\* UExpr::eval under the valuation v at width w.
UExprEval(e, v, w) ==
    CASE e.op = "Ones" -> sub(zero, one, w)
      [] e.op = "Var" -> v[e.name]
      [] e.op = "Not" -> not(UExprEval(e.args[1], v, w), w)
      [] e.op = "And" -> bitand(UExprEval(e.args[1], v, w), UExprEval(e.args[2], v, w), w)
      [] e.op = "Or" -> bitor(UExprEval(e.args[1], v, w), UExprEval(e.args[2], v, w), w)
      [] e.op = "Xor" -> bitxor(UExprEval(e.args[1], v, w), UExprEval(e.args[2], v, w), w)

RECURSIVE LUExprEvalTo(_, _, _, _)
\* The fold of LUExpr::eval over the first k terms.
LUExprEvalTo(l, k, v, w) ==
    IF k = 0 THEN zero
    ELSE add(LUExprEvalTo(l, k - 1, v, w), mul(l[k][1], UExprEval(l[k][2], v, w), w), w)

\* LUExpr::eval
LUExprEval(l, v, w) == LUExprEvalTo(l, Len(l), v, w)

\* LUExpr::from_uexpr
from_uexpr(u) == <<<<one, u>>>>

\* LUExpr::constant
constant(c, w) == <<<<sub(zero, c, w), Ones>>>>

(***************************************************************************)
(* Matrix and Vector: row-major entries, indexed from 0 as in the source.  *)
(***************************************************************************)
\* A matrix is [rows, cols, entries], entries a function on 0..rows*cols-1.
Matrix(r, c, entries) == [rows |-> r, cols |-> c, entries |-> entries]

\* The indices of the entries of an r x c matrix.
Indices(r, c) == 0 .. (r * c - 1)

\* A vector is a function on 0..dim-1.
VectorZero(dim) == [x \in 0 .. (dim - 1) |-> zero]

Dim(v) == Cardinality(DOMAIN v)

entry(m, r, c) == m.entries[r * m.cols + c]

min_dim(m) == IF m.rows < m.cols THEN m.rows ELSE m.cols

MatrixEmpty == [rows |-> 0, cols |-> 0, entries |-> [x \in {} |-> zero]]

MatrixZero(r, c) ==
    IF r = 0 \/ c = 0 THEN MatrixEmpty
    ELSE Matrix(r, c, [x \in Indices(r, c) |-> zero])

id(n) ==
    LET m == MatrixZero(n, n)
    IN  [m EXCEPT !.entries = [x \in DOMAIN m.entries |->
                                 IF x \div n = x % n THEN one ELSE zero]]

swap_rows(m, i, j) ==
    LET f(r, c) == IF r = i THEN entry(m, j, c)
                   ELSE IF r = j THEN entry(m, i, c) ELSE entry(m, r, c)
    IN  IF i = j THEN m ELSE Matrix(m.rows, m.cols, [x \in Indices(m.rows, m.cols) |-> f(x \div m.cols, x % m.cols)])

swap_columns(m, i, j) ==
    LET f(r, c) == IF c = i THEN entry(m, r, j)
                   ELSE IF c = j THEN entry(m, r, i) ELSE entry(m, r, c)
    IN  IF i = j THEN m ELSE Matrix(m.rows, m.cols, [x \in Indices(m.rows, m.cols) |-> f(x \div m.cols, x % m.cols)])

\* Row m gets c times row n added.  The loop reads row n while writing
\* row m, so with n = m each entry is read before it is written.
row_multiply_add(mat, n, m, c, w) ==
    LET f(r, j) == IF r = m
                   THEN add(entry(mat, m, j), mul(entry(mat, n, j), c, w), w)
                   ELSE entry(mat, r, j)
    IN  Matrix(mat.rows, mat.cols, [x \in Indices(mat.rows, mat.cols) |-> f(x \div mat.cols, x % mat.cols)])

col_multiply_add(mat, n, m, c, w) ==
    LET f(r, j) == IF j = m
                   THEN add(entry(mat, r, m), mul(entry(mat, r, n), c, w), w)
                   ELSE entry(mat, r, j)
    IN  Matrix(mat.rows, mat.cols, [x \in Indices(mat.rows, mat.cols) |-> f(x \div mat.cols, x % mat.cols)])

RECURSIVE SumTo(_, _, _)
\* The fold of f[0], ..., f[k-1] under wrapping addition.
SumTo(f, k, w) == IF k = 0 THEN zero ELSE add(SumTo(f, k - 1, w), f[k - 1], w)

RECURSIVE RowTimesVec(_, _, _, _, _)
\* The fold for row i of l zipped with the vector v.
RowTimesVec(l, i, v, k, w) ==
    IF k = 0 THEN zero
    ELSE add(RowTimesVec(l, i, v, k - 1, w), mul(entry(l, i, k - 1), v[k - 1], w), w)

\* Matrix times matrix.
MatMul(l, r, w) ==
    LET f(i, j) == SumTo([x \in 0 .. (l.cols - 1) |->
                            mul(entry(l, i, x), entry(r, x, j), w)], l.cols, w)
        m == MatrixZero(l.rows, r.cols)
    IN  Matrix(m.rows, m.cols, [x \in Indices(m.rows, m.cols) |-> f(x \div m.cols, x % m.cols)])

\* Matrix times vector.
MatVec(l, v, w) ==
    [i \in 0 .. (l.rows - 1) |-> RowTimesVec(l, i, v, l.cols, w)]

(***************************************************************************)
(* diagonalize                                                             *)
(***************************************************************************)
\* The index of the first smallest element of a non-empty set of
\* <<index, value>> pairs: min_by_key returns the first minimum.
MinByKey(pairs) ==
    (CHOOSE p \in pairs : \A o \in pairs :
        p[2] < o[2] \/ (p[2] = o[2] /\ p[1] <= o[1]))[1]

\* a.col(i).skip(i+1).all(zero)
col_zero(a, i) == \A r \in (i + 1) .. (a.rows - 1) : entry(a, r, i) = zero

\* row_zero skipping one entry too many.
row_zero_skips_pivot_neighbour(a, i) ==
    \A c \in (i + 2) .. (a.cols - 1) : entry(a, i, c) = zero

\* a.row(i).iter().skip(i+1).all(zero)
row_zero(a, i) == \A c \in (i + 1) .. (a.cols - 1) : entry(a, i, c) = zero

\* ColPivot taking the first non-zero entry instead of the smallest.
ColPivotFirstNonZero(a, i) ==
    MinByKey({<<r, one>> : r \in {x \in i .. (a.rows - 1) : entry(a, x, i) # zero}})

\* The pivot of the column: the row >= i with the smallest non-zero entry.
ColPivot(a, i) ==
    MinByKey({<<r, entry(a, r, i)>> : r \in {x \in i .. (a.rows - 1) : entry(a, x, i) # zero}})

\* The pivot of the row: the column >= i with the smallest non-zero entry.
RowPivot(a, i) ==
    MinByKey({<<c, entry(a, i, c)>> : c \in {x \in i .. (a.cols - 1) : entry(a, i, x) # zero}})

\* The multiplier that eliminates e with the pivot p: 0 - e / p.
Multiplier(e, p, w) == sub(zero, div(e, p), w)

\* The frame of a call of diagonalize on the matrix m at width w.
DiagEntry(m, w) ==
    [pc |-> "entry", n |-> w, orig |-> m, a |-> m,
     s |-> MatrixEmpty, t |-> MatrixEmpty, i |-> 0, k |-> 0]


\* Lines 168-169: S and T start as identities.
DiagStart ==
    /\ dg.pc = "entry"
    /\ dg' = [dg EXCEPT !.pc = "loop", !.s = id(dg.a.rows), !.t = id(dg.a.cols)]
    /\ UNCHANGED <<sc, sv, rw, ext>>

\* Line 171: the for loop over i is left and (s, t) returned.
DiagReturn ==
    /\ dg.pc = "loop"
    /\ dg.i >= min_dim(dg.a)
    /\ dg' = [dg EXCEPT !.pc = "done"]
    /\ UNCHANGED <<sc, sv, rw, ext>>

\* DiagSwapRows without the swap of the rows of S.
DiagSwapRowsForgetsS ==
    /\ dg.pc = "loop"
    /\ dg.i < min_dim(dg.a)
    /\ ~col_zero(dg.a, dg.i)
    /\ LET pivot == ColPivot(dg.a, dg.i)
       IN  dg' = [dg EXCEPT !.pc = "col", !.k = dg.i + 1,
                            !.a = swap_rows(dg.a, dg.i, pivot)]
    /\ UNCHANGED <<sc, sv, rw, ext>>

\* Lines 177-197: the column is not zero; the pivot row is swapped into row i.
DiagSwapRows ==
    /\ dg.pc = "loop"
    /\ dg.i < min_dim(dg.a)
    /\ ~col_zero(dg.a, dg.i)
    /\ LET pivot == ColPivot(dg.a, dg.i)
       IN  dg' = [dg EXCEPT !.pc = "col", !.k = dg.i + 1,
                            !.a = swap_rows(dg.a, dg.i, pivot),
                            !.s = swap_rows(dg.s, dg.i, pivot)]
    /\ UNCHANGED <<sc, sv, rw, ext>>

\* Lines 200-206: one pass of the for loop over the rows k below i.
DiagRowMultiplyAdd ==
    /\ dg.pc = "col"
    /\ dg.k < dg.a.rows
    /\ \/ /\ entry(dg.a, dg.k, dg.i) # zero
          /\ LET m == Multiplier(entry(dg.a, dg.k, dg.i), entry(dg.a, dg.i, dg.i), dg.n)
             IN  dg' = [dg EXCEPT !.k = dg.k + 1,
                                  !.a = row_multiply_add(dg.a, dg.i, dg.k, m, dg.n),
                                  !.s = row_multiply_add(dg.s, dg.i, dg.k, m, dg.n)]
       \/ /\ entry(dg.a, dg.k, dg.i) = zero
          /\ dg' = [dg EXCEPT !.k = dg.k + 1]
    /\ UNCHANGED <<sc, sv, rw, ext>>

\* Line 209: continue, back to the head of the loop.
DiagColContinue ==
    /\ dg.pc = "col"
    /\ dg.k >= dg.a.rows
    /\ dg' = [dg EXCEPT !.pc = "loop"]
    /\ UNCHANGED <<sc, sv, rw, ext>>

\* Lines 215-223: column and row are zero; break and go on with the next i.
DiagBreak ==
    /\ dg.pc = "loop"
    /\ dg.i < min_dim(dg.a)
    /\ col_zero(dg.a, dg.i)
    /\ row_zero(dg.a, dg.i)
    /\ dg' = [dg EXCEPT !.i = dg.i + 1]
    /\ UNCHANGED <<sc, sv, rw, ext>>

\* Lines 230-241: the row is not zero; the pivot column is swapped into column i.
DiagSwapColumns ==
    /\ dg.pc = "loop"
    /\ dg.i < min_dim(dg.a)
    /\ col_zero(dg.a, dg.i)
    /\ ~row_zero(dg.a, dg.i)
    /\ LET pivot == RowPivot(dg.a, dg.i)
       IN  dg' = [dg EXCEPT !.pc = "row", !.k = dg.i + 1,
                            !.a = swap_columns(dg.a, dg.i, pivot),
                            !.t = swap_columns(dg.t, dg.i, pivot)]
    /\ UNCHANGED <<sc, sv, rw, ext>>

\* Lines 244-250: one pass of the for loop over the columns k right of i.
DiagColMultiplyAdd ==
    /\ dg.pc = "row"
    /\ dg.k < dg.a.cols
    /\ \/ /\ entry(dg.a, dg.i, dg.k) # zero
          /\ LET m == Multiplier(entry(dg.a, dg.i, dg.k), entry(dg.a, dg.i, dg.i), dg.n)
             IN  dg' = [dg EXCEPT !.k = dg.k + 1,
                                  !.a = col_multiply_add(dg.a, dg.i, dg.k, m, dg.n),
                                  !.t = col_multiply_add(dg.t, dg.i, dg.k, m, dg.n)]
       \/ /\ entry(dg.a, dg.i, dg.k) = zero
          /\ dg' = [dg EXCEPT !.k = dg.k + 1]
    /\ UNCHANGED <<sc, sv, rw, ext>>

\* Line 251: the end of the loop body, back to its head.
DiagRowContinue ==
    /\ dg.pc = "row"
    /\ dg.k >= dg.a.cols
    /\ dg' = [dg EXCEPT !.pc = "loop"]
    /\ UNCHANGED <<sc, sv, rw, ext>>

NextDiag ==
    \/ DiagStart \/ DiagReturn \/ DiagSwapRows \/ DiagRowMultiplyAdd
    \/ DiagColContinue \/ DiagBreak \/ DiagSwapColumns \/ DiagColMultiplyAdd
    \/ DiagRowContinue

\* The entries the matrices are drawn from: 0 .. MaxEntry and the all-ones
\* value -1, which is what the rewriter's truth tables are made of.
EntryVals(w) == (0 .. MaxEntry) \cup {sub(zero, one, w)}

\* Square, more rows than columns, more columns than rows.
DiagShapes == {<<1, 2>>, <<2, 1>>, <<2, 2>>, <<2, 3>>, <<3, 2>>}

Matrices(shape, w) ==
    {[rows |-> shape[1], cols |-> shape[2], entries |-> e] :
        e \in [0 .. (shape[1] * shape[2] - 1) -> EntryVals(w)]}



InitDiag ==
    /\ \E shape \in DiagShapes : \E m \in Matrices(shape, MaxBits) :
          dg = DiagEntry(m, MaxBits)
    /\ sc = ScalarIdle
    /\ sv = SolveIdle
    /\ rw = RewriteIdle
    /\ ExtIdle

SpecDiag == InitDiag /\ [][NextDiag]_vars

\* diagonalize runs to its end once called: the program is sequential.
SpecDiagFair == SpecDiag /\ WF_vars(NextDiag)

DiagRunning == dg.pc \in {"loop", "col", "row", "done"}

\* C4: at every step of diagonalize and at its return the current matrix
\* equals S * A_original * T.
C4_CurrentEqualsSAT ==
    DiagRunning => dg.a = MatMul(MatMul(dg.s, dg.orig, dg.n), dg.t, dg.n)

\* diagonalize has returned after swapping rows and columns and eliminating in both.
C4_Witness ==
    /\ dg.pc = "done"
    /\ dg.s # id(dg.a.rows)
    /\ dg.t # id(dg.a.cols)
    /\ dg.a # dg.orig
    /\ dg.a = MatMul(MatMul(dg.s, dg.orig, dg.n), dg.t, dg.n)

\* C5: when diagonalize returns, every entry off the diagonal is zero.
C5_ReturnedMatrixIsDiagonal ==
    dg.pc = "done" =>
        \A r \in 0 .. (dg.a.rows - 1), c \in 0 .. (dg.a.cols - 1) :
            r # c => entry(dg.a, r, c) = zero

\* A full 3 x 2 matrix whose elimination needed both kinds of passes has been diagonalized.
C5_Witness ==
    /\ dg.pc = "done"
    /\ dg.a.rows = 3 /\ dg.a.cols = 2
    /\ \A x \in DOMAIN dg.orig.entries : dg.orig.entries[x] # zero
    /\ dg.t # id(dg.a.cols)
    /\ entry(dg.a, 1, 1) \notin {0, 1}

\* C6: diagonalize terminates: the loops over every index i are left and
\* the function returns.
C6_DiagonalizeTerminates == <>(dg.pc \in {"idle", "done"})

\* A run that needed a second pass over the same column has returned.
C6_Witness ==
    /\ dg.pc = "done"
    /\ dg.a.rows = 2 /\ dg.a.cols = 2
    /\ entry(dg.orig, 0, 0) = 2 /\ entry(dg.orig, 1, 0) = Modulus(dg.n) - 1
    /\ entry(dg.orig, 0, 1) # zero


ScalarWidths == (1 .. MaxBits) \cup {U8}

(***************************************************************************)
(* solve_congruences                                                       *)
(***************************************************************************)
\* AffineLattice::empty and AffineLattice::is_empty
LatticeEmpty == [offset |-> VectorZero(0), basis |-> <<>>]

is_empty(l) == Dim(l.offset) = 0

\* Vector::zero(dim) with v[i] = val.
UnitVector(dim, i, val) == [VectorZero(dim) EXCEPT ![i] = val]

\* InconsistentTail testing one entry too few.
InconsistentTailSkipsOneMore(bt, a) ==
    \E x \in (min_dim(a) + 1) .. (Dim(bt) - 1) : bt[x] # zero

\* Line 110: an entry of the transformed b at an index >= min_dim is not zero.
InconsistentTail(bt, a) ==
    \E x \in min_dim(a) .. (Dim(bt) - 1) : bt[x] # zero

\* FreeRange starting one index too late.
FreeRangeStartsLate(a) == (a.rows + 1) .. (a.cols - 1)

\* Line 144: the indices of the variables no equation restricts.
FreeRange(a) == a.rows .. (a.cols - 1)

\* ApplyT leaving the basis as it is.
ApplyTOffsetOnly(t, l, w) == [l EXCEPT !.offset = MatVec(t, l.offset, w)]

\* Lines 150-153: offset and basis are multiplied by T.
ApplyT(t, l, w) ==
    [offset |-> MatVec(t, l.offset, w),
     basis |-> [x \in DOMAIN l.basis |-> MatVec(t, l.basis[x], w)]]

\* The frame of a call of solve_congruences(a, b) at width w.
SolveEntry(a, b, w) ==
    [pc |-> "entry", n |-> w, a |-> a, b |-> b, bt |-> b, i |-> 0,
     l |-> LatticeEmpty, ret |-> LatticeEmpty]

\* Line 101: diagonalize is called on a.
SolveCallDiagonalize ==
    /\ sv.pc = "entry"
    /\ sv' = [sv EXCEPT !.pc = "diagonalize"]
    /\ dg' = DiagEntry(sv.a, sv.n)
    /\ UNCHANGED <<sc, rw, ext>>

\* Lines 105-118: b is transformed; a non-zero entry past the diagonal
\* returns the empty lattice.
SolveTransform ==
    /\ sv.pc = "diagonalize"
    /\ dg.pc = "done"
    /\ LET bt == MatVec(dg.s, sv.b, sv.n)
       IN  \/ /\ InconsistentTail(bt, dg.a)
              /\ sv' = [sv EXCEPT !.pc = "done", !.bt = bt, !.ret = LatticeEmpty]
           \/ /\ ~InconsistentTail(bt, dg.a)
              /\ sv' = [sv EXCEPT !.pc = "scalars", !.bt = bt, !.i = 0,
                           !.l = [offset |-> VectorZero(dg.a.cols), basis |-> <<>>]]
    /\ UNCHANGED <<sc, dg, rw, ext>>

\* Lines 121-139: one pass of the loop over the diagonal.
SolveScalar ==
    /\ sv.pc = "scalars"
    /\ sv.i < min_dim(dg.a)
    /\ LET r == solve_scalar_congruence(entry(dg.a, sv.i, sv.i), sv.bt[sv.i], sv.n)
       IN  \/ /\ r = None
              /\ sv' = [sv EXCEPT !.pc = "done", !.ret = LatticeEmpty]
           \/ /\ r # None
              /\ LET x == r[1][1]
                     kern == r[1][2]
                     basis == IF kern # zero
                              THEN Append(sv.l.basis, UnitVector(dg.a.cols, sv.i, kern))
                              ELSE sv.l.basis
                 IN  sv' = [sv EXCEPT !.i = sv.i + 1,
                              !.l = [offset |-> [sv.l.offset EXCEPT ![sv.i] = x],
                                     basis |-> basis]]
    /\ UNCHANGED <<sc, dg, rw, ext>>

\* Line 144: the loop over the diagonal is left for the loop over the free variables.
SolveScalarsDone ==
    /\ sv.pc = "scalars"
    /\ sv.i >= min_dim(dg.a)
    /\ sv' = [sv EXCEPT !.pc = "free", !.i = dg.a.rows]
    /\ UNCHANGED <<sc, dg, rw, ext>>

\* Lines 144-148: one pass of the loop over the free variables.
SolveFree ==
    /\ sv.pc = "free"
    /\ sv.i \in FreeRange(dg.a)
    /\ sv' = [sv EXCEPT !.i = sv.i + 1,
                 !.l.basis = Append(sv.l.basis, UnitVector(dg.a.cols, sv.i, one))]
    /\ UNCHANGED <<sc, dg, rw, ext>>

\* Lines 150-158: T is applied and the lattice returned.
SolveReturn ==
    /\ sv.pc = "free"
    /\ sv.i \notin FreeRange(dg.a)
    /\ sv' = [sv EXCEPT !.pc = "done", !.ret = ApplyT(dg.t, sv.l, sv.n)]
    /\ UNCHANGED <<sc, dg, rw, ext>>

NextSolve ==
    \/ SolveCallDiagonalize \/ NextDiag \/ SolveTransform \/ SolveScalar
    \/ SolveScalarsDone \/ SolveFree \/ SolveReturn

\* Square, more rows than columns, more columns than rows.
SolveShapes == {<<1, 1>>, <<1, 2>>, <<2, 1>>, <<2, 2>>, <<1, 3>>, <<3, 1>>}

Vectors(dim, w) == [0 .. (dim - 1) -> EntryVals(w)]

InitSolve ==
    /\ \E shape \in SolveShapes :
          \E a \in Matrices(shape, MaxBits), b \in Vectors(shape[1], MaxBits) :
              sv = SolveEntry(a, b, MaxBits)
    /\ dg = DiagIdle
    /\ sc = ScalarIdle
    /\ rw = RewriteIdle
    /\ ExtIdle

SpecSolve == InitSolve /\ [][NextSolve]_vars

SolveDone == sv.pc = "done"

\* All vectors of dimension dim over Z/2^w.
AllVectors(dim, w) == [0 .. (dim - 1) -> Mn(w)]

VecAdd(u, v, w) == [x \in DOMAIN u |-> add(u[x], v[x], w)]

VecScale(v, c, w) == [x \in DOMAIN v |-> mul(v[x], c, w)]

RECURSIVE LatticePoints(_, _, _, _)
\* The set { offset + sum a_i * basis_i : a_i in Z/2^w } over the first k
\* basis vectors.
LatticePoints(offset, basis, k, w) ==
    IF k = 0 THEN {offset}
    ELSE {VecAdd(p, VecScale(basis[k], c, w), w) :
            p \in LatticePoints(offset, basis, k - 1, w), c \in Mn(w)}

Members(l, w) == LatticePoints(l.offset, l.basis, Len(l.basis), w)

\* The solutions of A*x = b.
Solutions(a, b, w) == {x \in AllVectors(a.cols, w) : MatVec(a, x, w) = b}

\* C7: when a non-empty lattice is returned, A*offset = b and A*v = 0 for
\* every basis vector v, so every vector of the lattice satisfies A*x = b.
C7_LatticeIsSound ==
    (SolveDone /\ ~is_empty(sv.ret)) =>
        /\ MatVec(sv.a, sv.ret.offset, sv.n) = sv.b
        /\ \A j \in DOMAIN sv.ret.basis :
              MatVec(sv.a, sv.ret.basis[j], sv.n) = VectorZero(sv.a.rows)
        /\ \A x \in Members(sv.ret, sv.n) : MatVec(sv.a, x, sv.n) = sv.b

\* A lattice with an offset that is not zero and two basis vectors, moved by T.
C7_Witness ==
    /\ SolveDone /\ ~is_empty(sv.ret)
    /\ sv.ret.offset # VectorZero(sv.a.cols)
    /\ Len(sv.ret.basis) = 2
    /\ dg.t # id(sv.a.cols)
    /\ MatVec(sv.a, sv.ret.offset, sv.n) = sv.b

\* C8: every x with A*x = b is a member of the returned lattice.
C8_LatticeIsComplete ==
    SolveDone => Solutions(sv.a, sv.b, sv.n) \subseteq Members(sv.ret, sv.n)

\* A solvable 2 x 2 system with several solutions and a pivot that is no unit.
C8_Witness ==
    /\ SolveDone /\ ~is_empty(sv.ret)
    /\ sv.a.rows = 2 /\ sv.a.cols = 2
    /\ Len(sv.ret.basis) >= 1
    /\ \E j \in 0 .. 1 : entry(dg.a, j, j) \notin {0, 1, Modulus(sv.n) - 1}
    /\ Cardinality(Solutions(sv.a, sv.b, sv.n)) > 2
    /\ Solutions(sv.a, sv.b, sv.n) \subseteq Members(sv.ret, sv.n)

VarOrder == <<"_sub_0", "_sub_1", "_sub_2", "aux0", "x", "y">>

\* The sorted vector of the variables of the set names.
SortedVars(names) == SelectSeq(VarOrder, LAMBDA c : c \in names)

\* Lines 358-364: the valuation of row i: variable j gets 0 when bit j of
\* i is 0 and -1 otherwise.
RowValuation(v, i, w) ==
    [c \in {v[x] : x \in DOMAIN v} |->
        LET j == (CHOOSE x \in DOMAIN v : v[x] = c) - 1
        IN  IF (i \div (2^j)) % 2 = 0 THEN zero ELSE sub(zero, one, w)]

\* Lines 350-373: the matrix of the operations on the boolean valuations.
RewriteMatrix(ops, v, w) ==
    LET m == MatrixZero(2^Len(v), Len(ops))
        f(i, j) == LUExprEval(ops[j + 1], RowValuation(v, i, w), w)
    IN  Matrix(m.rows, m.cols, [x \in Indices(m.rows, m.cols) |-> f(x \div m.cols, x % m.cols)])

\* Lines 351-373: the vector of the expression on the boolean valuations.
RewriteVector(expr, v, w) ==
    [i \in 0 .. (2^Len(v) - 1) |-> LUExprEval(expr, RowValuation(v, i, w), w)]

RECURSIVE SampleTo(_, _, _, _, _)
\* Lines 384-389: the offset plus the first k basis vectors times the
\* random coefficients r.
SampleTo(offset, basis, r, k, w) ==
    IF k = 0 THEN offset
    ELSE VecAdd(SampleTo(offset, basis, r, k - 1, w), VecScale(basis[k], r[k], w), w)

\* Accumulate overwriting the coefficient of a term that is already there.
AccumulateOverwrites(v, f, e, w) ==
    IF \E x \in DOMAIN v : v[x][2] = e
    THEN LET x == CHOOSE x \in DOMAIN v :
                     v[x][2] = e /\ \A z \in 1 .. (x - 1) : v[z][2] # e
         IN  [v EXCEPT ![x] = <<f, e>>]
    ELSE Append(v, <<f, e>>)

\* Lines 399-402: f is added to the first term with the UExpr e, or the
\* term is pushed.
Accumulate(v, f, e, w) ==
    IF \E x \in DOMAIN v : v[x][2] = e
    THEN LET x == CHOOSE x \in DOMAIN v :
                     v[x][2] = e /\ \A z \in 1 .. (x - 1) : v[z][2] # e
         IN  [v EXCEPT ![x] = <<add(v[x][1], f, w), e>>]
    ELSE Append(v, <<f, e>>)

RECURSIVE AssembleOp(_, _, _, _, _)
\* Lines 397-403: the first k terms of the operation o, scaled by c.
AssembleOp(v, c, o, k, w) ==
    IF k = 0 THEN v
    ELSE Accumulate(AssembleOp(v, c, o, k - 1, w), mul(c, o[k][1], w), o[k][2], w)

RECURSIVE AssembleTo(_, _, _, _)
\* Lines 396-404: the first k pairs of solution.iter().zip(ops.iter()).
AssembleTo(solution, ops, k, w) ==
    IF k = 0 THEN <<>>
    ELSE AssembleOp(AssembleTo(solution, ops, k - 1, w),
                    solution[k - 1], ops[k], Len(ops[k]), w)

\* The linear combination with the terms whose coefficient is zero kept.
AssembleKeepsZeros(solution, ops, w) ==
    LET k == IF Dim(solution) < Len(ops) THEN Dim(solution) ELSE Len(ops)
    IN  AssembleTo(solution, ops, k, w)

\* Lines 395-409: the linear combination without its zero terms.
Assemble(solution, ops, w) ==
    LET k == IF Dim(solution) < Len(ops) THEN Dim(solution) ELSE Len(ops)
    IN  SelectSeq(AssembleTo(solution, ops, k, w), LAMBDA t : t[1] # zero)

\* The frame of a call of rewrite(expr, ops, randomize) at width w.
RewriteEntry(expr, ops, randomize, w) ==
    [pc |-> "entry", n |-> w, expr |-> expr, ops |-> ops, randomize |-> randomize,
     v |-> <<>>, a |-> MatrixEmpty, b |-> VectorZero(0),
     solution |-> VectorZero(0), ret |-> None]

\* Lines 337-373: the variables are collected and the system is built.
RewriteBuild ==
    /\ rw.pc = "entry"
    /\ LET names == LUExprVars(rw.expr) \cup
                      UNION {LUExprVars(rw.ops[x]) : x \in DOMAIN rw.ops}
           v == SortedVars(names)
       IN  rw' = [rw EXCEPT !.pc = "built", !.v = v,
                            !.a = RewriteMatrix(rw.ops, v, rw.n),
                            !.b = RewriteVector(rw.expr, v, rw.n)]
    /\ UNCHANGED <<sc, dg, sv, ext>>

\* Line 376: solve_congruences is called.  Its debug_assert on the
\* dimensions aborts a build with debug assertions and is compiled out of a
\* release build.
RewriteCallSolve ==
    /\ rw.pc = "built"
    /\ \/ /\ rw' = [rw EXCEPT !.pc = "solving"]
          /\ sv' = SolveEntry(rw.a, rw.b, rw.n)
       \/ /\ rw.a.rows # Dim(rw.b)
          /\ rw' = [rw EXCEPT !.pc = "panicked"]
          /\ UNCHANGED sv
    /\ UNCHANGED <<sc, dg, ext>>

\* Lines 379-381: the lattice is empty and None is returned.
RewriteNone ==
    /\ rw.pc = "solving"
    /\ sv.pc = "done"
    /\ is_empty(sv.ret)
    /\ rw' = [rw EXCEPT !.pc = "done", !.ret = None]
    /\ UNCHANGED <<sc, dg, sv, ext>>

\* Lines 384-389: a point of the lattice is sampled.
RewriteSample ==
    /\ rw.pc = "solving"
    /\ sv.pc = "done"
    /\ ~is_empty(sv.ret)
    /\ \/ /\ rw.randomize
          /\ \E r \in [DOMAIN sv.ret.basis -> Mn(rw.n)] :
                rw' = [rw EXCEPT !.pc = "sampled",
                         !.solution = SampleTo(sv.ret.offset, sv.ret.basis, r,
                                               Len(sv.ret.basis), rw.n)]
       \/ /\ ~rw.randomize
          /\ rw' = [rw EXCEPT !.pc = "sampled", !.solution = sv.ret.offset]
    /\ UNCHANGED <<sc, dg, sv, ext>>

\* Lines 395-409: the solution is put into an LUExpr and returned.
RewriteReturn ==
    /\ rw.pc = "sampled"
    /\ rw' = [rw EXCEPT !.pc = "done",
                        !.ret = Some(Assemble(rw.solution, rw.ops, rw.n))]
    /\ UNCHANGED <<sc, dg, sv, ext>>

NextRewrite ==
    \/ RewriteBuild \/ RewriteCallSolve \/ NextSolve \/ RewriteNone
    \/ RewriteSample \/ RewriteReturn

\* The standard bank x^y, x|y, x&y, ~x, ~y, -1, and (x^y) + 2*(x&y) and x.
OpsBank ==
    <<from_uexpr(Xor(Var("x"), Var("y"))), from_uexpr(Or(Var("x"), Var("y"))),
      from_uexpr(And(Var("x"), Var("y"))), from_uexpr(Not(Var("x"))),
      from_uexpr(Not(Var("y"))), from_uexpr(Ones),
      <<<<1, Xor(Var("x"), Var("y"))>>, <<2, And(Var("x"), Var("y"))>>>>,
      from_uexpr(Var("x"))>>

\* The sublists of the bank, in the order of the bank, of at most MaxOps operations.
OpsLists ==
    {[j \in 1 .. Cardinality(pick) |->
        OpsBank[CHOOSE x \in pick : Cardinality({z \in pick : z < x}) = j - 1]] :
        pick \in {p \in SUBSET DOMAIN OpsBank : Cardinality(p) <= MaxOps}}

\* The expressions to rewrite: x+y, x-y, x, 3*~x, 1, x^y, 2*(x|y) - 3*y, and 0.
ExprBank(w) ==
    {<<<<1, Var("x")>>, <<1, Var("y")>>>>,
     <<<<1, Var("x")>>, <<sub(zero, one, w), Var("y")>>>>,
     <<<<1, Var("x")>>>>,
     <<<<3 % Modulus(w), Not(Var("x"))>>>>,
     constant(one, w),
     <<<<1, Xor(Var("x"), Var("y"))>>>>,
     <<<<2 % Modulus(w), Or(Var("x"), Var("y"))>>, <<sub(zero, 3 % Modulus(w), w), Var("y")>>>>,
     <<>>}

InitRewrite ==
    /\ \E expr \in ExprBank(MaxBits), ops \in OpsLists, randomize \in BOOLEAN :
          rw = RewriteEntry(expr, ops, randomize, MaxBits)
    /\ sv = SolveIdle
    /\ dg = DiagIdle
    /\ sc = ScalarIdle
    /\ ExtIdle

SpecRewrite == InitRewrite /\ [][NextRewrite]_vars

\* The valuations that give each name 0 or the all-ones value.
BoolValuations(names, w) == [names -> {zero, sub(zero, one, w)}]

RewriteNames ==
    LUExprVars(rw.expr) \cup UNION {LUExprVars(rw.ops[x]) : x \in DOMAIN rw.ops}

RewriteSome == rw.pc = "done" /\ rw.ret # None

\* C10: when rewrite returns Some(r), r and e evaluate to the same value
\* under every valuation that gives each variable 0 or the all-ones value.
C10_RewriteAgreesOnBooleans ==
    RewriteSome =>
        \A val \in BoolValuations(RewriteNames, rw.n) :
            LUExprEval(rw.ret[1], val, rw.n) = LUExprEval(rw.expr, val, rw.n)

\* x + y was rewritten with a random point of the lattice into a
\* combination that merged terms of different operations.
C10_Witness ==
    /\ RewriteSome
    /\ rw.randomize
    /\ rw.expr = <<<<1, Var("x")>>, <<1, Var("y")>>>>
    /\ rw.solution # sv.ret.offset
    /\ Len(rw.ret[1]) = 2
    /\ \E j \in DOMAIN rw.ops : Len(rw.ops[j]) = 2 /\ rw.solution[j - 1] # zero
    /\ \E j \in DOMAIN rw.ops : Len(rw.ops[j]) = 1 /\ rw.solution[j - 1] # zero
                                   /\ rw.ops[j][1][2] = And(Var("x"), Var("y"))

RECURSIVE CombinationEval(_, _, _, _, _)
\* The value of c[1]*ops[1] + ... + c[k]*ops[k] under the valuation val.
CombinationEval(c, ops, k, val, w) ==
    IF k = 0 THEN zero
    ELSE add(CombinationEval(c, ops, k - 1, val, w),
             mul(c[k], LUExprEval(ops[k], val, w), w), w)

\* Some linear combination of the operations equals the expression on all
\* valuations that give each variable 0 or the all-ones value.
RewriteExists ==
    \E c \in [DOMAIN rw.ops -> Mn(rw.n)] :
        \A val \in BoolValuations(RewriteNames, rw.n) :
            CombinationEval(c, rw.ops, Len(rw.ops), val, rw.n)
                = LUExprEval(rw.expr, val, rw.n)

\* The call of rewrite has ended, by a return or by the failed assertion.
RewriteEnded == rw.pc \in {"done", "panicked"}

\* C11: rewrite returns None only when no rewrite exists: whenever some
\* combination of the operations equals e on all boolean valuations, the
\* empty combination for an empty list of operations and e = 0 included,
\* rewrite returns Some.
C11_SomeWheneverRewriteExists ==
    (RewriteEnded /\ RewriteExists) => RewriteSome

\* C11 for calls with at least one operation.
C11_SomeWheneverRewriteExistsNonEmptyOps ==
    (RewriteEnded /\ RewriteExists /\ Len(rw.ops) > 0) => RewriteSome

\* A call with at least one operation returned None.
C11_WitnessNonEmptyOps ==
    rw.pc = "done" /\ rw.ret = None /\ Len(rw.ops) = MaxOps

(***************************************************************************)
(* Expr: general expressions.  A parsed expression is a tree, every        *)
(* Rc<Expr> of it has one owner, and it is modelled by its value.          *)
(***************************************************************************)
ExprConst(c) == [e |-> "Const", val |-> c, name |-> "", kids |-> <<>>]

ExprVar(c) == [e |-> "Var", val |-> zero, name |-> c, kids |-> <<>>]

\* Neg and Not.
ExprUn(op, i) == [e |-> op, val |-> zero, name |-> "", kids |-> <<i>>]

\* Add, Sub, Mul, Div, Mod, And, Or, Xor, Shl and Shr.
ExprBin(op, l, r) == [e |-> op, val |-> zero, name |-> "", kids |-> <<l, r>>]

RECURSIVE ExprVars(_)
\* Expr::vars_impl.
ExprVars(e) ==
    IF e.e = "Const" THEN {}
    ELSE IF e.e = "Var" THEN {e.name}
    ELSE UNION {ExprVars(e.kids[x]) : x \in DOMAIN e.kids}

\* The value of an expression that divides by zero.
Trap == -1

\* The operators of the enum on values of Z/2^w, as they are printed.
ExprApply(op, a, b, w) ==
    CASE op = "Add" -> add(a, b, w)
      [] op = "Sub" -> sub(a, b, w)
      [] op = "Mul" -> mul(a, b, w)
      [] op = "Div" -> IF b = zero THEN Trap ELSE div(a, b)
      [] op = "Mod" -> IF b = zero THEN Trap ELSE a % b
      [] op = "And" -> bitand(a, b, w)
      [] op = "Or" -> bitor(a, b, w)
      [] op = "Xor" -> bitxor(a, b, w)
      [] op = "Shl" -> IF b >= w THEN zero ELSE (a * 2^b) % Modulus(w)
      [] op = "Shr" -> IF b >= w THEN zero ELSE a \div 2^b

RECURSIVE ExprEval(_, _, _)
\* The value of the expression e under the valuation v at width w.
ExprEval(e, v, w) ==
    CASE e.e = "Const" -> e.val
      [] e.e = "Var" -> v[e.name]
      [] e.e = "Neg" ->
            LET a == ExprEval(e.kids[1], v, w)
            IN  IF a = Trap THEN Trap ELSE sub(zero, a, w)
      [] e.e = "Not" ->
            LET a == ExprEval(e.kids[1], v, w)
            IN  IF a = Trap THEN Trap ELSE not(a, w)
      [] OTHER ->
            LET a == ExprEval(e.kids[1], v, w)
                b == ExprEval(e.kids[2], v, w)
            IN  IF a = Trap \/ b = Trap THEN Trap ELSE ExprApply(e.e, a, b, w)

RECURSIVE UExprToExpr(_, _)
\* UExpr::to_expr.
UExprToExpr(u, w) ==
    CASE u.op = "Ones" -> ExprConst(sub(zero, one, w))
      [] u.op = "Var" -> ExprVar(u.name)
      [] u.op = "Not" -> ExprUn("Not", UExprToExpr(u.args[1], w))
      [] OTHER -> ExprBin(u.op, UExprToExpr(u.args[1], w), UExprToExpr(u.args[2], w))

\* LUExpr::to_expr, the closure term.
LUExprTerm(f, u, w) ==
    IF f = one THEN UExprToExpr(u, w)
    ELSE ExprBin("Mul", ExprConst(f), UExprToExpr(u, w))

RECURSIVE LUExprSum(_, _, _)
\* LUExpr::to_expr, the loop over the first k terms of a non-empty list.
LUExprSum(l, k, w) ==
    IF k = 1 THEN LUExprTerm(l[1][1], l[1][2], w)
    ELSE ExprBin("Add", LUExprSum(l, k - 1, w), LUExprTerm(l[k][1], l[k][2], w))

\* LUExpr::to_expr.
LUExprToExpr(l, w) ==
    LET it == SelectSeq(l, LAMBDA t : t[1] # zero)
    IN  IF it = <<>> THEN ExprConst(zero) ELSE LUExprSum(it, Len(it), w)

RECURSIVE Substituted(_, _, _)
\* The expression e with every Var(var) replaced by the expression by.
Substituted(e, by, var) ==
    IF e.e = "Var" THEN (IF e.name = var THEN by ELSE e)
    ELSE [e EXCEPT !.kids = [x \in DOMAIN e.kids |-> Substituted(e.kids[x], by, var)]]

\* The names format!("_sub_{}", subs.len()) gives.
SubNames == <<"_sub_0", "_sub_1", "_sub_2">>

\* Lines 102-104 and 115-117: e is captured behind a new variable.
Capture(e, subs) ==
    [u |-> Var(SubNames[Len(subs) + 1]),
     subs |-> Append(subs, <<SubNames[Len(subs) + 1], e>>)]

RECURSIVE expr_to_uexpr(_, _)
\* Lines 98-120.  The strong count of every node of a tree is 1.
expr_to_uexpr(e, subs) ==
    CASE e.e = "Var" -> [u |-> Var(e.name), subs |-> subs]
      [] e.e \in {"And", "Or", "Xor"} ->
            LET l == expr_to_uexpr(e.kids[1], subs)
                r == expr_to_uexpr(e.kids[2], l.subs)
            IN  [u |-> [op |-> e.e, name |-> "", args |-> <<l.u, r.u>>],
                 subs |-> r.subs]
      [] e.e = "Not" ->
            LET i == expr_to_uexpr(e.kids[1], subs)
            IN  [u |-> Not(i.u), subs |-> i.subs]
      [] OTHER -> Capture(e, subs)

\* Lines 123-137: the coefficient f and the UExpr u of a term.
parse_term(e, subs, w) ==
    IF e.e = "Mul" /\ e.kids[1].e = "Const"
    THEN [f |-> e.kids[1].val] @@ expr_to_uexpr(e.kids[2], subs)
    ELSE IF e.e = "Mul" /\ e.kids[2].e = "Const"
    THEN [f |-> e.kids[2].val] @@ expr_to_uexpr(e.kids[1], subs)
    ELSE IF e.e = "Const"
    THEN [f |-> sub(zero, e.val, w), u |-> Ones, subs |-> subs]
    ELSE [f |-> one] @@ expr_to_uexpr(e, subs)

\* Lines 168-174 with the negation of the sign left out.
TermKeepsSign(e, lu, subs, sign, w) ==
    LET t == parse_term(e, subs, w)
    IN  [lu |-> Append(lu, <<t.f, t.u>>), subs |-> t.subs]

\* Lines 168-174: any other expression is one term.
Term(e, lu, subs, sign, w) ==
    LET t == parse_term(e, subs, w)
        f == IF sign THEN sub(zero, t.f, w) ELSE t.f
    IN  [lu |-> Append(lu, <<f, t.u>>), subs |-> t.subs]

RECURSIVE expr_to_luexpr(_, _, _, _, _)
\* Lines 139-176: the terms of e are pushed to lu, its captures to subs.
expr_to_luexpr(e, lu, subs, sign, w) ==
    CASE e.e = "Add" ->
            LET l == expr_to_luexpr(e.kids[1], lu, subs, sign, w)
            IN  expr_to_luexpr(e.kids[2], l.lu, l.subs, sign, w)
      [] e.e = "Sub" ->
            LET l == expr_to_luexpr(e.kids[1], lu, subs, sign, w)
            IN  expr_to_luexpr(e.kids[2], l.lu, l.subs, ~sign, w)
      [] e.e = "Neg" ->
            LET f == IF sign THEN one ELSE sub(zero, one, w)
                i == expr_to_uexpr(e.kids[1], subs)
            IN  [lu |-> Append(lu, <<f, i.u>>), subs |-> i.subs]
      [] OTHER -> Term(e, lu, subs, sign, w)

(***************************************************************************)
(* obfuscate_expr                                                          *)
(***************************************************************************)
REWRITE_TRIES == 128

\* Work that is left for the calls of obfuscate_expr that have not returned.
ObfTask(e) == [t |-> "obf", e |-> e, name |-> ""]

CombineTask(op) == [t |-> "combine", e |-> ExprConst(zero), name |-> op]

SubstTask(var) == [t |-> "subst", e |-> ExprConst(zero), name |-> var]

RECURSIVE SubsTasks(_, _)
\* Lines 219-225: each capture from the k-th on is obfuscated and then
\* substituted for its variable.
SubsTasks(subs, k) ==
    IF k > Len(subs) THEN <<>>
    ELSE <<ObfTask(subs[k][2]), SubstTask(subs[k][1])>> \o SubsTasks(subs, k + 1)

\* Lines 237-242: the variables of the configuration, then the new ones of e.
RewriteVars(e, vs) ==
    vs \o SelectSeq(SortedVars(LUExprVars(e)),
                    LAMBDA c : \A x \in DOMAIN vs : vs[x] # c)

\* Expressions random_bool_expr can return for the variables vs.
BoolExprPool(vs) ==
    LET first == Var(vs[1])
        last == Var(vs[Len(vs)])
    IN  <<last, And(first, last), first, Not(first),
          IF Len(vs) > 2 THEN Var(vs[2]) ELSE Or(first, last)>>

\* Lines 244-249: count operations of the pool, from the s-th on.
RandomOps(vs, count, s) ==
    LET pool == BoolExprPool(vs)
    IN  [j \in 1 .. count |-> from_uexpr(pool[((s + j - 2) % Len(pool)) + 1])]

\* The frame of the outermost call, made at line 90.
ObfuscateEntry(expr, aux, count, w) ==
    [pc |-> "run", n |-> w, expr |-> expr, count |-> count,
     vars |-> SortedVars(ExprVars(expr)) \o aux,
     work |-> <<ObfTask(expr)>>, vals |-> <<>>,
     lu |-> <<>>, subs |-> <<>>, tries |-> 0]

ObTop == Head(ob.work)

ObRecurses(e) == e.e \in {"Mul", "Div", "Mod", "Shl", "Shr"}

\* Lines 197-208: both operands are obfuscated and the node is kept.
ObDescend ==
    /\ ob.pc = "run" /\ ob.work # <<>> /\ ObTop.t = "obf" /\ ObRecurses(ObTop.e)
    /\ ob' = [ob EXCEPT !.work = <<ObfTask(ObTop.e.kids[1]), ObfTask(ObTop.e.kids[2]),
                                   CombineTask(ObTop.e.e)>> \o Tail(ob.work)]
    /\ UNCHANGED <<sc, dg, sv, rw, pp, bi, ex, more>>

\* Both operands are done.
ObCombine ==
    /\ ob.pc = "run" /\ ob.work # <<>> /\ ObTop.t = "combine"
    /\ ob' = [ob EXCEPT !.work = Tail(ob.work),
                        !.vals = <<ExprBin(ObTop.name, ob.vals[2], ob.vals[1])>>
                                   \o Tail(Tail(ob.vals))]
    /\ UNCHANGED <<sc, dg, sv, rw, pp, bi, ex, more>>

\* Lines 212-217: the expression is turned into a linear combination.
ObLinear ==
    /\ ob.pc = "run" /\ ob.work # <<>> /\ ObTop.t = "obf" /\ ~ObRecurses(ObTop.e)
    /\ LET r == expr_to_luexpr(ObTop.e, <<>>, <<>>, FALSE, ob.n)
       IN  ob' = [ob EXCEPT !.pc = "rewrite", !.work = Tail(ob.work),
                            !.lu = r.lu, !.subs = r.subs, !.tries = 0]
    /\ UNCHANGED <<sc, dg, sv, rw, pp, bi, ex, more>>

\* Lines 243-251: random operations are drawn and rewrite is called.
ObChooseOps ==
    /\ ob.pc = "rewrite"
    /\ \E s \in 1 .. 2 :
          rw' = RewriteEntry(ob.lu, RandomOps(RewriteVars(ob.lu, ob.vars), ob.count, s),
                             TRUE, ob.n)
    /\ ob' = [ob EXCEPT !.pc = "rewriting"]
    /\ UNCHANGED <<sc, dg, sv, pp, bi, ex, more>>

\* Lines 251-252 and 218-225: the rewritten combination replaces the node.
ObRewriteSome ==
    /\ ob.pc = "rewriting" /\ rw.pc = "done" /\ rw.ret # None
    /\ ob' = [ob EXCEPT !.pc = "run",
                        !.vals = <<LUExprToExpr(rw.ret[1], ob.n)>> \o ob.vals,
                        !.work = SubsTasks(ob.subs, 1) \o ob.work,
                        !.lu = <<>>, !.subs = <<>>, !.tries = 0]
    /\ rw' = RewriteIdle /\ sv' = SolveIdle /\ dg' = DiagIdle
    /\ UNCHANGED <<sc, pp, bi, ex, more>>

\* Lines 243, 251 and 256: the next try, or the panic after the last one.
ObRewriteNone ==
    /\ ob.pc = "rewriting" /\ rw.pc = "done" /\ rw.ret = None
    /\ ob' = IF ob.tries + 1 < REWRITE_TRIES
             THEN [ob EXCEPT !.pc = "rewrite", !.tries = ob.tries + 1]
             ELSE [ob EXCEPT !.pc = "panicked"]
    /\ rw' = RewriteIdle /\ sv' = SolveIdle /\ dg' = DiagIdle
    /\ UNCHANGED <<sc, pp, bi, ex, more>>

\* Line 224: the obfuscated capture is substituted for its variable.
ObSubstitute ==
    /\ ob.pc = "run" /\ ob.work # <<>> /\ ObTop.t = "subst"
    /\ ob' = [ob EXCEPT !.work = Tail(ob.work),
                        !.vals = <<Substituted(ob.vals[2], ob.vals[1], ObTop.name)>>
                                   \o Tail(Tail(ob.vals))]
    /\ UNCHANGED <<sc, dg, sv, rw, pp, bi, ex, more>>

\* The outermost call returns.
ObReturn ==
    /\ ob.pc = "run" /\ ob.work = <<>>
    /\ ob' = [ob EXCEPT !.pc = "done"]
    /\ UNCHANGED <<sc, dg, sv, rw, pp, bi, ex, more>>

NextObfuscate ==
    \/ ObDescend \/ ObCombine \/ ObLinear \/ ObChooseOps \/ ObRewriteSome
    \/ ObRewriteNone \/ ObSubstitute \/ ObReturn
    \/ NextRewrite

\* Parsed expressions: x + y, x - (y - x), 3*x - y*2, x * y, (x * y) & x,
\* 5 - x, -(x + y) and (x + y) / y.
ParsedExprs ==
    LET x == ExprVar("x")
        y == ExprVar("y")
    IN  {ExprBin("Add", x, y),
         ExprBin("Sub", x, ExprBin("Sub", y, x)),
         ExprBin("Sub", ExprBin("Mul", ExprConst(3), x), ExprBin("Mul", y, ExprConst(2))),
         ExprBin("Mul", x, y),
         ExprBin("And", ExprBin("Mul", x, y), x),
         ExprBin("Sub", ExprConst(5), x),
         ExprUn("Neg", ExprBin("Add", x, y)),
         ExprBin("Div", ExprBin("Add", x, y), y)}

\* Parsed expressions that need x & y or x | y among the operations:
\* -(x & y) and ~(x - y) | x.
ParsedBoolExprs ==
    LET x == ExprVar("x")
        y == ExprVar("y")
    IN  {ExprUn("Neg", ExprBin("And", x, y)),
         ExprBin("Or", ExprUn("Not", ExprBin("Sub", x, y)), x)}

\* The configurations: the expression, the auxiliary variables of
\* cfg.aux_vars = 0 or 1, and cfg.rewrite_count = 5 or 1.
ObConfigs ==
    (ParsedExprs \X {<<>>, <<"aux0">>} \X {5})
       \cup (ParsedBoolExprs \X {<<>>} \X {5, 1})
       \cup ({ExprBin("Add", ExprVar("x"), ExprVar("y"))} \X {<<>>} \X {1})

InitObfuscate ==
    /\ \E cfg \in ObConfigs : ob = ObfuscateEntry(cfg[1], cfg[2], cfg[3], MaxBits)
    /\ rw = RewriteIdle /\ sv = SolveIdle /\ dg = DiagIdle /\ sc = ScalarIdle
    /\ pp = NotCalled /\ bi = NotCalled /\ ex = NotCalled /\ MoreIdle

SpecObfuscate == InitObfuscate /\ [][NextObfuscate]_vars

\* The valuations of the variables of the configuration.
ObValuations == [{ob.vars[x] : x \in DOMAIN ob.vars} -> Mn(ob.n)]

\* C12: the expression obfuscate_expr produces evaluates to the same value
\* as the parsed expression under every assignment of the variables, the
\* auxiliary ones included, to values of Z/2^n.
C12_ObfuscationKeepsValue ==
    ob.pc = "done" =>
        \A val \in ObValuations :
            ExprEval(ob.vals[1], val, ob.n) = ExprEval(ob.expr, val, ob.n)

\* (x * y) & x was obfuscated: the product was captured, its operands were
\* rewritten, and the result is another expression over x, y and aux0.
C12_Witness ==
    /\ ob.pc = "done"
    /\ ob.expr = ExprBin("And", ExprBin("Mul", ExprVar("x"), ExprVar("y")), ExprVar("x"))
    /\ ob.vars = <<"x", "y", "aux0">>
    /\ ob.vals[1] # ob.expr
    /\ ExprVars(ob.vals[1]) \subseteq {"x", "y", "aux0"}

(***************************************************************************)
(* Polynomial: the sequence of the coefficients a_0, a_1, ...              *)
(***************************************************************************)
\* The coefficients f[1], ..., f[len] as a sequence of values.
Coeffs(f, len) == SubSeq(f, 1, len)

RECURSIVE PolyTruncate(_)
\* Polynomial::truncate.
PolyTruncate(p) ==
    IF p # <<>> /\ p[Len(p)] = zero THEN PolyTruncate(SubSeq(p, 1, Len(p) - 1)) ELSE p

RECURSIVE PolyEvalFrom(_, _, _, _)
\* Polynomial::eval, Horner's method down to the coefficient k.
PolyEvalFrom(p, k, x, w) ==
    IF k >= Len(p) THEN p[k]
    ELSE add(mul(PolyEvalFrom(p, k + 1, x, w), x, w), p[k], w)

\* Polynomial::eval.
PolyEval(p, x, w) == IF p = <<>> THEN zero ELSE PolyEvalFrom(p, 1, x, w)

\* Polynomial::mul_lin: the polynomial times (X - a).
mul_lin(p, a, w) ==
    LET q == <<zero>> \o p
    IN  Coeffs([i \in 1 .. Len(q) |->
                   IF i < Len(q) THEN sub(q[i], mul(a, q[i + 1], w), w) ELSE q[i]],
               Len(q))

\* A derivative with the factors 2, 4, ... in place of 1, 2, ....
PolyDerivativeDoubled(p, w) ==
    IF p = <<>> THEN <<>>
    ELSE Coeffs([i \in 1 .. (Len(p) - 1) |-> mul(p[i + 1], (2 * i) % Modulus(w), w)],
                Len(p) - 1)

\* Polynomial::derivative.
PolyDerivative(p, w) ==
    IF p = <<>> THEN <<>>
    ELSE Coeffs([i \in 1 .. (Len(p) - 1) |-> mul(p[i + 1], i % Modulus(w), w)],
                Len(p) - 1)

\* SubAssign<&Polynomial>, for an rhs that is at least as long.
PolySubAssign(p, rhs, w) ==
    Coeffs([i \in 1 .. Len(rhs) |->
               IF i <= Len(p) THEN sub(p[i], rhs[i], w) ELSE sub(zero, rhs[i], w)],
           Len(rhs))

\* Mul for &Polynomial, for operands that are not both empty (line 289).
PolyMul(p, rhs, w) ==
    Coeffs([k \in 1 .. (Len(p) + Len(rhs) - 1) |->
               SumTo([x \in 0 .. (Len(rhs) - 1) |->
                        IF k - x >= 1 /\ k - x <= Len(p)
                        THEN mul(rhs[x + 1], p[k - x], w) ELSE zero],
                     Len(rhs), w)],
           Len(p) + Len(rhs) - 1)

\* AddAssign<T>.
PolyAddConst(p, c, w) ==
    IF p = <<>> THEN <<c>> ELSE [p EXCEPT ![1] = add(p[1], c, w)]

\* ShlAssign<usize>: every coefficient is shifted left by m < w.
PolyShl(p, m, w) == Coeffs([i \in DOMAIN p |-> (p[i] * 2^m) % Modulus(w)], Len(p))

\* Polynomial::is_id.
is_id(p) == p = <<zero, one>>

RECURSIVE trailing_zeros(_)
\* usize::trailing_zeros of i > 0.
trailing_zeros(i) == IF i % 2 = 1 THEN 0 ELSE 1 + trailing_zeros(i \div 2)

RECURSIVE LinearProduct(_, _)
\* Lines 395-402 and 414-421: X (X - 1) ... (X - (i - 1)).
LinearProduct(i, w) ==
    IF i = 0 THEN <<one>>
    ELSE mul_lin(LinearProduct(i - 1, w), (i - 1) % Modulus(w), w)

RECURSIVE SimplifyFrom(_, _, _, _, _)
\* The loops of Polynomial::simplify: coeff runs down over the generators
\* gen[g], ..., gen[1], the longest first.
SimplifyFrom(p, coeff, g, gen, w) ==
    IF g = 0 THEN p
    ELSE LET gen_len == Len(gen[g]) - 1
         IN  IF coeff < gen_len THEN SimplifyFrom(p, coeff, g - 1, gen, w)
             ELSE LET m == p[coeff + 1] \div gen[g][gen_len + 1]
                      q == Coeffs([j \in DOMAIN p |->
                                     IF j - 1 >= coeff - gen_len /\ j - 1 <= coeff
                                     THEN sub(p[j],
                                              mul(m, gen[g][j - (coeff - gen_len)], w), w)
                                     ELSE p[j]],
                                  Len(p))
                  IN  SimplifyFrom(q, coeff - 1, g, gen, w)

\* Polynomial::simplify that leaves the zero coefficients at the end.
simplified_untruncated(p, gen, w) == SimplifyFrom(p, Len(p) - 1, Len(gen), gen, w)

\* Polynomial::simplify of a polynomial with at least one coefficient.
simplified(p, gen, w) == PolyTruncate(SimplifyFrom(p, Len(p) - 1, Len(gen), gen, w))

RECURSIVE ReduceLoop(_, _, _)
\* The loop of Polynomial::reduce with the generator of the highest degree.
ReduceLoop(p, g, w) ==
    IF Len(p) < Len(g) THEN p
    ELSE LET c == p[Len(p)]
             r == SubSeq(p, 1, Len(p) - 1)
             from == Len(r) - (Len(g) - 1)
         IN  ReduceLoop(Coeffs([j \in DOMAIN r |->
                                   IF j > from THEN sub(r[j], mul(c, g[j - from], w), w)
                                   ELSE r[j]],
                                Len(r)),
                        g, w)

\* Polynomial::reduce.
reduce(p, gen, w) == PolyTruncate(ReduceLoop(p, gen[Len(gen)], w))

\* What stands for the polynomial a function returns when it panics instead;
\* no coefficient is negative.
Unwound == <<-1>>

\* No polynomial to go on with: the call panicked, or the empty polynomial
\* is passed to simplify, which panics on it (line 442).
Fails(c) == c = <<>> \/ c = Unwound

RECURSIVE ComposeLoop(_, _, _, _, _, _)
\* The loop of compose: Horner's method, r before the coefficient p[k] is added.
\* Mul panics on two empty polynomials (line 286) and compose unwinds.
ComposeLoop(r, p, k, q, gen, w) ==
    IF k = 0 THEN r
    ELSE IF r = <<>> /\ q = <<>> THEN Unwound
    ELSE ComposeLoop(reduce(PolyAddConst(PolyMul(r, q, w), p[k], w), gen, w),
                     p, k - 1, q, gen, w)

\* compose(p, q, zi): p at q(X).
compose(p, q, gen, w) ==
    IF p = <<>> THEN <<zero>> ELSE ComposeLoop(<<p[Len(p)]>>, p, Len(p) - 1, q, gen, w)

RECURSIVE parity(_, _)
\* The fold of parity over the coefficients from k on, in steps of 2.
parity(p, k) ==
    IF k > Len(p) THEN TRUE
    ELSE IF p[k] % 2 = 1 THEN ~parity(p, k + 2) ELSE parity(p, k + 2)

\* is_perm_poly that does not look at the coefficients of odd degree.
is_perm_poly_even_only(f) ==
    /\ Len(f) >= 2 /\ f[2] % 2 = 1
    /\ parity(f, 3)

\* is_perm_poly.
is_perm_poly(f) ==
    /\ Len(f) >= 2 /\ f[2] % 2 = 1
    /\ parity(f, 3)
    /\ parity(f, 4)

\* The exponent of the generator of degree i that doubles at the last bit.
GeneratorKeepsABit(i, e, w) ==
    PolyTruncate(PolyShl(LinearProduct(i, w), IF e = 1 THEN 0 ELSE e, w))

\* Lines 410-426: the generator 2^e X (X - 1) ... (X - (i - 1)).
Generator(i, e, w) == PolyTruncate(PolyShl(LinearProduct(i, w), e, w))

RECURSIVE Power(_, _, _)
\* Lines 154-159: j after c passes of j *= x.
Power(x, c, w) == IF c = 0 THEN one % Modulus(w) ELSE mul(Power(x, c - 1, w), x, w)

\* Lines 151-162: the Vandermonde matrix of p at 0, 1, ..., rows - 1.
Vandermonde(p, rows, cols, w) ==
    Matrix(rows, cols,
           [x \in Indices(rows, cols) |->
               Power(PolyEval(p, (x \div cols) % Modulus(w), w), x % cols, w)])

\* The vector 1, 2, ..., rows.
IdentitiesFromOne(rows, w) == [r \in 0 .. (rows - 1) |-> (r + 1) % Modulus(w)]

\* Lines 165-170: the vector 0, 1, ..., rows - 1.
Identities(rows, w) == [r \in 0 .. (rows - 1) |-> r % Modulus(w)]

\* Polynomial::from_coeffs of the entries of a vector.
from_coeffs(v) == Coeffs([i \in 1 .. Dim(v) |-> v[i - 1]], Dim(v))

\* The frame of a call of invert_poly_impl with the parsed polynomial p.
InvertPolyEntry(p, alg, w) ==
    [pc |-> "check", n |-> w, alg |-> alg, p |-> p, gen |-> <<>>, div |-> 0,
     i |-> 2, f |-> <<>>, q |-> <<>>, it |-> 0, ret |-> None, err |-> FALSE,
     inverse |-> FALSE]

\* Lines 46-48: an input that is not a permutation polynomial is an error.
InvertCheck ==
    /\ pp.pc = "check"
    /\ \/ /\ ~is_perm_poly(pp.p)
          /\ pp' = [pp EXCEPT !.pc = "done", !.err = TRUE]
       \/ /\ is_perm_poly(pp.p)
          /\ pp' = [pp EXCEPT !.pc = "init"]
    /\ UNCHANGED <<sc, dg, sv, rw, ob, bi, ex, more>>

\* Lines 389-427: one pass of the loop of ZeroIdeal::init.
ZeroIdealInit ==
    /\ pp.pc = "init"
    /\ LET total == pp.div + trailing_zeros(pp.i)
       IN  \/ /\ pp.n <= total
              /\ pp' = [pp EXCEPT !.pc = "simplify", !.div = total,
                          !.gen = Append(pp.gen, PolyTruncate(LinearProduct(pp.i, pp.n)))]
           \/ /\ pp.n > total
              /\ pp' = [pp EXCEPT !.div = total, !.i = pp.i + 2,
                          !.gen = Append(pp.gen, Generator(pp.i, pp.n - total, pp.n))]
    /\ UNCHANGED <<sc, dg, sv, rw, ob, bi, ex, more>>

\* Lines 54-62: p is simplified and the algorithm selected.
InvertSelect ==
    /\ pp.pc = "simplify"
    /\ LET p == simplified(pp.p, pp.gen, pp.n)
       IN  \/ /\ pp.alg = "Newton"
              /\ pp' = [pp EXCEPT !.pc = "newton", !.p = p, !.q = <<zero, one>>, !.it = 0]
           \/ /\ pp.alg = "Fermat"
              /\ pp' = [pp EXCEPT !.pc = "fermat", !.p = p, !.f = p, !.it = 0]
           \/ /\ pp.alg = "Lagrange"
              /\ pp' = [pp EXCEPT !.pc = "lagrange", !.p = p]
           \/ /\ pp.alg \notin {"Newton", "Fermat", "Lagrange"}
              /\ pp' = [pp EXCEPT !.pc = "done", !.p = p, !.err = TRUE]
    /\ UNCHANGED <<sc, dg, sv, rw, ob, bi, ex, more>>

\* Lines 116-139: one pass of the loop of invert_newton.  The assertion on
\* it, an empty polynomial in simplify and a comp without coeffs[1] panic.
InvertNewton ==
    /\ pp.pc = "newton"
    /\ IF pp.it > pp.n * 2 THEN pp' = [pp EXCEPT !.pc = "panicked"]
       ELSE LET c == compose(pp.p, pp.q, pp.gen, pp.n)
                comp == IF Fails(c) THEN <<>> ELSE simplified(c, pp.gen, pp.n)
            IN  IF Fails(c) THEN pp' = [pp EXCEPT !.pc = "panicked"]
                ELSE IF is_id(comp) THEN pp' = [pp EXCEPT !.pc = "verify"]
                ELSE IF Len(comp) < 2 THEN pp' = [pp EXCEPT !.pc = "panicked"]
                ELSE LET d == [comp EXCEPT ![2] = sub(comp[2], one, pp.n)]
                         qd == PolyDerivative(pp.q, pp.n)
                         q == PolySubAssign(pp.q, PolyMul(qd, d, pp.n), pp.n)
                     IN  IF q = <<>> THEN pp' = [pp EXCEPT !.pc = "panicked"]
                         ELSE pp' = [pp EXCEPT !.q = simplified(q, pp.gen, pp.n),
                                               !.it = pp.it + 1]
    /\ UNCHANGED <<sc, dg, sv, rw, ob, bi, ex, more>>

\* Lines 90-102: one pass of the loop of invert_fermat, and the assert!(false)
\* after it.
InvertFermat ==
    /\ pp.pc = "fermat"
    /\ IF pp.it >= pp.n THEN pp' = [pp EXCEPT !.pc = "panicked"]
       ELSE LET c == compose(pp.f, pp.p, pp.gen, pp.n)
                g == IF Fails(c) THEN <<>> ELSE simplified(c, pp.gen, pp.n)
                d == IF Fails(c) THEN <<>> ELSE compose(pp.f, g, pp.gen, pp.n)
            IN  IF Fails(c) THEN pp' = [pp EXCEPT !.pc = "panicked"]
                ELSE IF is_id(g) THEN pp' = [pp EXCEPT !.pc = "verify", !.q = pp.f]
                ELSE IF Fails(d) THEN pp' = [pp EXCEPT !.pc = "panicked"]
                ELSE pp' = [pp EXCEPT !.f = simplified(d, pp.gen, pp.n),
                                      !.it = pp.it + 1]
    /\ UNCHANGED <<sc, dg, sv, rw, ob, bi, ex, more>>

\* Lines 147-172: invert_lagrange builds the system and calls solve_congruences.
InvertLagrangeCall ==
    /\ pp.pc = "lagrange"
    /\ LET rows == Len(pp.gen[Len(pp.gen)])
       IN  sv' = SolveEntry(Vandermonde(pp.p, rows, rows, pp.n),
                            Identities(rows, pp.n), pp.n)
    /\ pp' = [pp EXCEPT !.pc = "solving"]
    /\ UNCHANGED <<sc, dg, rw, ob, bi, ex, more>>

\* Line 183: the offset of the lattice is simplified and returned.
InvertLagrangeReturn ==
    /\ pp.pc = "solving"
    /\ sv.pc = "done"
    /\ LET q == from_coeffs(sv.ret.offset)
       IN  IF q = <<>> THEN pp' = [pp EXCEPT !.pc = "panicked"]
           ELSE pp' = [pp EXCEPT !.pc = "verify", !.q = simplified(q, pp.gen, pp.n)]
    /\ sv' = SolveIdle
    /\ dg' = DiagIdle
    /\ UNCHANGED <<sc, rw, ob, bi, ex, more>>

\* Lines 76-81: the inverse is checked and returned.
InvertReturn ==
    /\ pp.pc = "verify"
    /\ LET c == compose(pp.p, pp.q, pp.gen, pp.n)
       IN  IF Fails(c) THEN pp' = [pp EXCEPT !.pc = "panicked"]
           ELSE pp' = [pp EXCEPT !.pc = "done", !.ret = Some(pp.q),
                                 !.inverse = is_id(simplified(c, pp.gen, pp.n))]
    /\ UNCHANGED <<sc, dg, sv, rw, ob, bi, ex, more>>

\* The system of invert_lagrange is square: the loop of solve_congruences
\* over the free variables (SolveFree) has no pass.
NextInvert ==
    \/ InvertCheck \/ ZeroIdealInit \/ InvertSelect \/ InvertNewton \/ InvertFermat
    \/ InvertLagrangeCall \/ InvertLagrangeReturn \/ InvertReturn
    \/ SolveCallDiagonalize \/ NextDiag \/ SolveTransform \/ SolveScalar
    \/ SolveScalarsDone \/ SolveReturn

\* Parsed inputs at the width MaxBits: parse_poly returns truncated polynomials.
PolyCoeffs(w) == (0 .. MaxCoeff) \cup {sub(zero, one, w)}

SmallPolys(w) ==
    {p \in UNION {[1 .. k -> PolyCoeffs(w)] : k \in 0 .. MaxPolyLen} :
        p = <<>> \/ p[Len(p)] # zero}

\* Parsed inputs at the width of Wrapping<u8>.
BytePolys ==
    {<<0, 1>>, <<1, 3, 2>>, <<5, 7, 4, 2>>, <<3, 255, 6, 8, 2, 4>>,
     <<0, 1, 0, 0, 0, 0, 0, 0, 0, 0, 0, 2>>, <<17, 129, 128, 64>>,
     <<1, 2>>, <<0, 1, 1>>, <<>>}

InvertAlgs == {"Newton", "Fermat", "Lagrange", "Halley"}

InitInvert ==
    /\ \E alg \in InvertAlgs :
          \/ \E p \in SmallPolys(MaxBits) : pp = InvertPolyEntry(p, alg, MaxBits)
          \/ \E p \in BytePolys : pp = InvertPolyEntry(p, alg, U8)
    /\ sc = ScalarIdle
    /\ dg = DiagIdle
    /\ sv = SolveIdle
    /\ rw = RewriteIdle
    /\ ob = NotCalled /\ bi = NotCalled /\ ex = NotCalled /\ MoreIdle

SpecInvert == InitInvert /\ [][NextInvert]_vars

\* C13: every generator that ZeroIdeal::init has produced for the width n
\* evaluates to 0 at every element of Z/2^n.
C13_GeneratorsVanish ==
    pp.pc = "simplify" =>
        \A g \in DOMAIN pp.gen : \A x \in Mn(pp.n) : PolyEval(pp.gen[g], x, pp.n) = zero

C13_Witness ==
    /\ pp.pc = "simplify"
    /\ pp.n = U8
    /\ Len(pp.gen) = 5
    /\ pp.gen[1] = <<0, 128, 128>>
    /\ Len(pp.gen[5]) = 11

\* C14: the polynomial q that an inverter returns for the permutation
\* polynomial p composes with p to the identity: compose(p, q), simplified
\* modulo the zero ideal, is exactly [0, 1].
C14_InverseComposesToIdentity ==
    pp.pc = "verify" =>
        is_id(simplified(compose(pp.p, pp.q, pp.gen, pp.n), pp.gen, pp.n))

C14_Witness ==
    /\ pp.pc = "verify"
    /\ pp.alg = "Lagrange"
    /\ pp.n = U8
    /\ pp.p = <<1, 3, 2>>
    /\ pp.q = <<255, 63, 98, 88, 8>>

\* C15: invert_newton reaches p(q_k) = X within at most 2n iterations: the
\* assertion on the number of iterations never fires and no pass panics.
C15_NewtonWithinBound ==
    (pp.pc # "idle" /\ pp.alg = "Newton") =>
        /\ pp.pc # "panicked"
        /\ pp.it <= pp.n * 2

C15_Witness ==
    /\ pp.pc = "verify"
    /\ pp.alg = "Newton"
    /\ pp.n = U8
    /\ pp.it >= 3
    /\ pp.q # <<zero, one>>

RECURSIVE CoeffSum(_, _)
\* a_(k-1) + a_(k+1) + ... over the integers.
CoeffSum(f, k) == IF k > Len(f) THEN 0 ELSE f[k] + CoeffSum(f, k + 2)

\* The criterion of Rivest: a_1 odd, a_2 + a_4 + ... even, a_3 + a_5 + ... even.
Rivest(f) ==
    /\ Len(f) >= 2 /\ f[2] % 2 = 1
    /\ CoeffSum(f, 3) % 2 = 0
    /\ CoeffSum(f, 4) % 2 = 0

\* f induces a bijection on Z/2^w.
Bijective(f, w) == Cardinality({PolyEval(f, x, w) : x \in Mn(w)}) = Modulus(w)

\* C16: is_perm_poly accepts f exactly when the criterion of Rivest holds,
\* which is exactly when f induces a bijection on Z/2^n, and invert_poly
\* rejects every input for which it does not hold.
C16_PermPolyIffBijection ==
    pp.pc # "idle" =>
        /\ is_perm_poly(pp.p) <=> Rivest(pp.p)
        /\ is_perm_poly(pp.p) <=> Bijective(pp.p, pp.n)
        /\ (pp.pc # "check" /\ ~Rivest(pp.p)) =>
               (pp.pc = "done" /\ pp.err /\ pp.ret = None)

C16_Witness ==
    /\ pp.pc = "done"
    /\ pp.err
    /\ pp.alg = "Newton"
    /\ Len(pp.p) = 4
    /\ pp.p[2] % 2 = 1
    /\ pp.p[4] % 2 = 1
    /\ ~Bijective(pp.p, pp.n)

(***************************************************************************)
(* Bits<N>: an N-bit integer stored in a Wrapping<u64>.  The frame bi      *)
(* holds the stored value v, the operation that produced it and its        *)
(* operands.                                                               *)
(***************************************************************************)
\* Line 54: the width of the container.
U64 == 64

\* Lines 57-62: Bits::m, the mask (1 << N) - 1 applied to the wrapped u64.
\* 2^N divides 2^64, so the masked value is the residue modulo 2^N.
m(x, N) == x % Modulus(N)

\* Lines 38-40 and 75-77: print_negative of Wrapping<uN> and of Bits<N>.
print_negative(x, N) == x > 2^(N - 1)

\* Lines 193-194: Wrapping<u64> << usize shifts by rhs modulo 64, and the
\* mask keeps the low N bits, which are 0 after a shift by N or more.
BitsShifted(x, rhs, N) == IF rhs % U64 >= N THEN zero ELSE m(x * 2^(rhs % U64), N)

\* A value of the type ty and width N.
BitsValue(ty, N, v) ==
    [pc |-> "value", ty |-> ty, n |-> N, v |-> v, op |-> "new", a |-> v, b |-> zero,
     ret |-> FALSE]

\* The frame after the operation op on the operands a and rhs gave v.
BitsResult(op, v, rhs) == [bi EXCEPT !.v = v, !.op = op, !.a = bi.v, !.b = rhs]

\* Add without the mask.
BitsAddUnmasked ==
    /\ bi.pc = "value" /\ bi.ty = "Bits"
    /\ \E rhs \in Mn(bi.n) : bi' = BitsResult("add", bi.v + rhs, rhs)
    /\ UNCHANGED <<sc, dg, sv, rw, ob, pp, ex, more>>

\* Lines 100-105: Add.
BitsAdd ==
    /\ bi.pc = "value" /\ bi.ty = "Bits"
    /\ \E rhs \in Mn(bi.n) : bi' = BitsResult("add", m(bi.v + rhs, bi.n), rhs)
    /\ UNCHANGED <<sc, dg, sv, rw, ob, pp, ex, more>>

\* Lines 107-112: AddAssign.
BitsAddAssign ==
    /\ bi.pc = "value" /\ bi.ty = "Bits"
    /\ \E rhs \in Mn(bi.n) : bi' = BitsResult("add_assign", m(bi.v + rhs, bi.n), rhs)
    /\ UNCHANGED <<sc, dg, sv, rw, ob, pp, ex, more>>

\* Lines 114-119: Sub, which adds rhs.0.
BitsSub ==
    /\ bi.pc = "value" /\ bi.ty = "Bits"
    /\ \E rhs \in Mn(bi.n) : bi' = BitsResult("sub", m(bi.v + rhs, bi.n), rhs)
    /\ UNCHANGED <<sc, dg, sv, rw, ob, pp, ex, more>>

\* Lines 121-126: SubAssign.
BitsSubAssign ==
    /\ bi.pc = "value" /\ bi.ty = "Bits"
    /\ \E rhs \in Mn(bi.n) : bi' = BitsResult("sub_assign", m(bi.v - rhs, bi.n), rhs)
    /\ UNCHANGED <<sc, dg, sv, rw, ob, pp, ex, more>>

\* Lines 128-133: Mul.
BitsMul ==
    /\ bi.pc = "value" /\ bi.ty = "Bits"
    /\ \E rhs \in Mn(bi.n) : bi' = BitsResult("mul", m(bi.v * rhs, bi.n), rhs)
    /\ UNCHANGED <<sc, dg, sv, rw, ob, pp, ex, more>>

\* Lines 135-140: MulAssign.
BitsMulAssign ==
    /\ bi.pc = "value" /\ bi.ty = "Bits"
    /\ \E rhs \in Mn(bi.n) : bi' = BitsResult("mul_assign", m(bi.v * rhs, bi.n), rhs)
    /\ UNCHANGED <<sc, dg, sv, rw, ob, pp, ex, more>>

\* Lines 170-175: BitAnd, without the mask.
BitsBitAnd ==
    /\ bi.pc = "value" /\ bi.ty = "Bits"
    /\ \E rhs \in Mn(bi.n) : bi' = BitsResult("bitand", bitand(bi.v, rhs, U64), rhs)
    /\ UNCHANGED <<sc, dg, sv, rw, ob, pp, ex, more>>

\* Lines 177-182: BitOr, without the mask.
BitsBitOr ==
    /\ bi.pc = "value" /\ bi.ty = "Bits"
    /\ \E rhs \in Mn(bi.n) : bi' = BitsResult("bitor", bitor(bi.v, rhs, U64), rhs)
    /\ UNCHANGED <<sc, dg, sv, rw, ob, pp, ex, more>>

\* Lines 184-189: BitXor, without the mask.
BitsBitXor ==
    /\ bi.pc = "value" /\ bi.ty = "Bits"
    /\ \E rhs \in Mn(bi.n) : bi' = BitsResult("bitxor", bitxor(bi.v, rhs, U64), rhs)
    /\ UNCHANGED <<sc, dg, sv, rw, ob, pp, ex, more>>

\* Lines 142-147: Div; a division by zero panics.
BitsDiv ==
    /\ bi.pc = "value" /\ bi.ty = "Bits"
    /\ \E rhs \in Mn(bi.n) :
          IF rhs = zero THEN bi' = [bi EXCEPT !.pc = "panicked", !.op = "div"]
          ELSE bi' = BitsResult("div", m(bi.v \div rhs, bi.n), rhs)
    /\ UNCHANGED <<sc, dg, sv, rw, ob, pp, ex, more>>

\* Lines 149-154: DivAssign; a division by zero panics.
BitsDivAssign ==
    /\ bi.pc = "value" /\ bi.ty = "Bits"
    /\ \E rhs \in Mn(bi.n) :
          IF rhs = zero THEN bi' = [bi EXCEPT !.pc = "panicked", !.op = "div_assign"]
          ELSE bi' = BitsResult("div_assign", m(bi.v \div rhs, bi.n), rhs)
    /\ UNCHANGED <<sc, dg, sv, rw, ob, pp, ex, more>>

\* Lines 156-161: Rem; a division by zero panics.
BitsRem ==
    /\ bi.pc = "value" /\ bi.ty = "Bits"
    /\ \E rhs \in Mn(bi.n) :
          IF rhs = zero THEN bi' = [bi EXCEPT !.pc = "panicked", !.op = "rem"]
          ELSE bi' = BitsResult("rem", m(bi.v % rhs, bi.n), rhs)
    /\ UNCHANGED <<sc, dg, sv, rw, ob, pp, ex, more>>

\* Lines 163-168: RemAssign; a division by zero panics.
BitsRemAssign ==
    /\ bi.pc = "value" /\ bi.ty = "Bits"
    /\ \E rhs \in Mn(bi.n) :
          IF rhs = zero THEN bi' = [bi EXCEPT !.pc = "panicked", !.op = "rem_assign"]
          ELSE bi' = BitsResult("rem_assign", m(bi.v % rhs, bi.n), rhs)
    /\ UNCHANGED <<sc, dg, sv, rw, ob, pp, ex, more>>

\* Shift amounts: below, at and above N, and around the width of the container.
ShiftAmounts == (0 .. (MaxBits + 1)) \cup {U64 - 1, U64, U64 + 1}

\* Lines 191-196: Shl<usize>.
BitsShl ==
    /\ bi.pc = "value" /\ bi.ty = "Bits"
    /\ \E rhs \in ShiftAmounts : bi' = BitsResult("shl", BitsShifted(bi.v, rhs, bi.n), rhs)
    /\ UNCHANGED <<sc, dg, sv, rw, ob, pp, ex, more>>

\* Lines 198-203: ShlAssign<usize>.
BitsShlAssign ==
    /\ bi.pc = "value" /\ bi.ty = "Bits"
    /\ \E rhs \in ShiftAmounts :
          bi' = BitsResult("shl_assign", BitsShifted(bi.v, rhs, bi.n), rhs)
    /\ UNCHANGED <<sc, dg, sv, rw, ob, pp, ex, more>>

\* Lines 205-210: Not; !x is 2^64 - 1 - x, congruent to -1 - x modulo 2^N.
BitsNot ==
    /\ bi.pc = "value" /\ bi.ty = "Bits"
    /\ bi' = BitsResult("not", m(-1 - bi.v, bi.n), zero)
    /\ UNCHANGED <<sc, dg, sv, rw, ob, pp, ex, more>>

\* Lines 67-69: from_str_radix masks the parsed u64.
BitsFromStrRadix ==
    /\ bi.pc = "value" /\ bi.ty = "Bits"
    /\ \E x \in 0 .. (2 * Modulus(bi.n)) :
          bi' = [bi EXCEPT !.v = m(x, bi.n), !.op = "from_str_radix", !.a = x, !.b = zero]
    /\ UNCHANGED <<sc, dg, sv, rw, ob, pp, ex, more>>

\* Lines 38-40 and 75-77: print_negative of the value.
PrintNegative ==
    /\ bi.pc = "value"
    /\ bi' = [bi EXCEPT !.op = "print_negative", !.a = bi.v, !.b = zero,
                        !.ret = print_negative(bi.v, bi.n)]
    /\ UNCHANGED <<sc, dg, sv, rw, ob, pp, ex, more>>

NextBits ==
    \/ BitsAdd \/ BitsAddAssign \/ BitsSub \/ BitsSubAssign \/ BitsMul \/ BitsMulAssign
    \/ BitsDiv \/ BitsDivAssign \/ BitsRem \/ BitsRemAssign
    \/ BitsBitAnd \/ BitsBitOr \/ BitsBitXor \/ BitsShl \/ BitsShlAssign \/ BitsNot
    \/ BitsFromStrRadix \/ PrintNegative

\* Bits<N> starts from zero() or one(); a Wrapping<u8> is any byte.
InitBits ==
    /\ \/ \E N \in 1 .. MaxBits, v \in {zero, one} : bi = BitsValue("Bits", N, v)
       \/ \E v \in Mn(U8) : bi = BitsValue("Wrapping", U8, v)
    /\ sc = ScalarIdle
    /\ dg = DiagIdle
    /\ sv = SolveIdle
    /\ rw = RewriteIdle
    /\ ob = NotCalled /\ pp = NotCalled /\ ex = NotCalled /\ MoreIdle

SpecBits == InitBits /\ [][NextBits]_vars

\* C17: print_negative(x) is true exactly when x >= 2^(n-1), the high bit of
\* x being set, for Wrapping<uN> and for Bits<N>.
C17_PrintNegativeIffHighBit ==
    (bi.pc = "value" /\ bi.op = "print_negative") =>
        (bi.ret <=> bi.a >= 2^(bi.n - 1))

\* C18: the subtraction of Bits<N> wraps modulo 2^N: a - b gives (a - b) mod 2^N.
C18_SubWraps ==
    (bi.pc = "value" /\ bi.op \in {"sub", "sub_assign"}) =>
        bi.v = (bi.a - bi.b) % Modulus(bi.n)

\* C19: every value stored in a Bits<N> is below 2^N, after any sequence of
\* the operations from values below 2^N.
C19_StoredBelowModulus ==
    (bi.pc # "idle" /\ bi.ty = "Bits") => bi.v \in Mn(bi.n)

C19_Witness ==
    /\ bi.pc = "value"
    /\ bi.ty = "Bits"
    /\ bi.n = MaxBits
    /\ bi.op = "not"
    /\ bi.a = zero
    /\ bi.v = Modulus(MaxBits) - 1

(***************************************************************************)
(* Expr::substitute on shared nodes.  An Rc<Expr> is the index of a node   *)
(* in heap; the kids of a node are such indices.  self is the node root,   *)
(* held by value.  A slot <<parent, k>> is the k-th Rc of the node parent, *)
(* parent 0 being self.                                                    *)
(***************************************************************************)
\* The Rc that the slot holds.
SlotPtr(f, slot) ==
    IF slot[1] = 0 THEN f.root.kids[slot[2]] ELSE f.heap[slot[1]].kids[slot[2]]

\* The slots of the node parent with the kids kids, in the order l, r.
KidSlots(parent, kids) == [k \in DOMAIN kids |-> <<parent, k>>]

\* The Var arm that replaces the Rc on the first visit of the node only.
ReplacesOnFirstVisit(node, var, recurse) == node.e = "Var" /\ node.name = var /\ recurse

\* Line 91: the Var arm replaces the Rc, visited before or not.
Replaces(node, var, recurse) == node.e = "Var" /\ node.name = var

\* The node is visited by every call that reaches it.
RecurseAlways(visited, ptr) == TRUE

\* Lines 79-84: recurse is false when visited contains the pointer.
Recurse(visited, ptr) == \A x \in DOMAIN visited : visited[x] # ptr

\* The frame of a call of self.substitute(e, var).
SubstituteEntry(heap, root, e, var) ==
    [pc |-> "entry", heap |-> heap, root |-> root, sub |-> e, var |-> var,
     visited |-> <<>>, stack |-> <<>>, heap0 |-> heap, root0 |-> root]

\* Lines 59-71: substitute matches on self.
Substitute ==
    /\ ex.pc = "entry"
    /\ \/ /\ ex.root.e = "Const"
          /\ ex' = [ex EXCEPT !.pc = "done"]
       \/ /\ ex.root.e = "Var"
          /\ ex' = [ex EXCEPT !.pc = "done",
                      !.root = IF ex.root.name = ex.var THEN ex.heap[ex.sub] ELSE ex.root]
       \/ /\ ex.root.e \notin {"Const", "Var"}
          /\ ex' = [ex EXCEPT !.pc = "impl", !.stack = KidSlots(0, ex.root.kids)]
    /\ UNCHANGED <<sc, dg, sv, rw, ob, pp, bi, more>>

\* Lines 74-102: one call of substitute_impl, on the slot on top of the stack.
SubstituteImpl ==
    /\ ex.pc = "impl"
    /\ ex.stack # <<>>
    /\ LET this == Head(ex.stack)
           ptr == SlotPtr(ex, this)
           recurse == Recurse(ex.visited, ptr)
           visited == IF recurse THEN Append(ex.visited, ptr) ELSE ex.visited
           node == ex.heap[ptr]
       IN  \/ /\ Replaces(node, ex.var, recurse)
              /\ IF this[1] = 0
                 THEN ex' = [ex EXCEPT !.visited = visited, !.stack = Tail(ex.stack),
                                       !.root.kids[this[2]] = ex.sub]
                 ELSE ex' = [ex EXCEPT !.visited = visited, !.stack = Tail(ex.stack),
                                       !.heap[this[1]].kids[this[2]] = ex.sub]
           \/ /\ ~Replaces(node, ex.var, recurse)
              /\ node.kids # <<>> /\ recurse
              /\ ex' = [ex EXCEPT !.visited = visited,
                                  !.stack = KidSlots(ptr, node.kids) \o Tail(ex.stack)]
           \/ /\ ~Replaces(node, ex.var, recurse)
              /\ node.kids = <<>> \/ ~recurse
              /\ ex' = [ex EXCEPT !.visited = visited, !.stack = Tail(ex.stack)]
    /\ UNCHANGED <<sc, dg, sv, rw, ob, pp, bi, more>>

\* Line 72: the calls of substitute_impl have returned.
SubstituteReturn ==
    /\ ex.pc = "impl"
    /\ ex.stack = <<>>
    /\ ex' = [ex EXCEPT !.pc = "done"]
    /\ UNCHANGED <<sc, dg, sv, rw, ob, pp, bi, more>>

NextSubstitute == Substitute \/ SubstituteImpl \/ SubstituteReturn

\* Heaps with shared nodes: 1 = x, 2 = y, 3 = 1, 4 = y + 1, 5 = a + b,
\* 6 = c * (a + b), 7 = ~k.
SharedHeaps ==
    {<<ExprVar("x"), ExprVar("y"), ExprConst(one), ExprBin("Add", 2, 3),
       ExprBin("Add", a, b), ExprBin("Mul", c, 5), ExprUn("Not", k)>> :
        a \in 1 .. 3, b \in 1 .. 3, c \in {1, 2, 5}, k \in {1, 6}}

\* self: a variable, a constant, or a node over Rcs into the heap.
Roots ==
    {ExprVar("x"), ExprConst(zero)}
        \cup {ExprUn("Neg", r) : r \in {1, 5, 6, 7}}
        \cup {ExprBin("Add", l, r) : l \in {1, 5, 6, 7}, r \in {1, 5, 6, 7}}

\* The variable and the Rc of an expression that does not contain it.
Substitutions == {<<"x", 3>>, <<"x", 4>>, <<"y", 3>>}

InitSubstitute ==
    /\ \E heap \in SharedHeaps, root \in Roots, by \in Substitutions :
          ex = SubstituteEntry(heap, root, by[2], by[1])
    /\ sc = ScalarIdle
    /\ dg = DiagIdle
    /\ sv = SolveIdle
    /\ rw = RewriteIdle
    /\ ob = NotCalled /\ pp = NotCalled /\ bi = NotCalled /\ MoreIdle

SpecSubstitute == InitSubstitute /\ [][NextSubstitute]_vars

RECURSIVE ReachFrom(_, _, _)
\* The nodes reachable from the nodes in S within k steps.
ReachFrom(S, heap, k) ==
    IF k = 0 THEN S
    ELSE ReachFrom(S \cup UNION {{heap[n].kids[x] : x \in DOMAIN heap[n].kids} : n \in S},
                   heap, k - 1)

\* The nodes reachable from the node root.
Reachable(root, heap) ==
    ReachFrom({root.kids[x] : x \in DOMAIN root.kids}, heap, Len(heap))

\* The slots of self and of the nodes reachable from it.
ReachableSlots(root, heap) ==
    {<<0, k>> : k \in DOMAIN root.kids}
        \cup UNION {{<<n, k>> : k \in DOMAIN heap[n].kids} : n \in Reachable(root, heap)}

IsVar(node, var) == node.e = "Var" /\ node.name = var

\* C20: after self.substitute(sub, name), sub containing no Var(name), no
\* Var(name) is reachable from self: every Rc that pointed to a Var(name) is
\* an Rc of sub, also in a node that is reachable through several parents,
\* and self is sub's node if it was Var(name).
C20_NoVarLeft ==
    ex.pc = "done" =>
        /\ ~IsVar(ex.root, ex.var)
        /\ \A n \in Reachable(ex.root, ex.heap) : ~IsVar(ex.heap[n], ex.var)
        /\ IsVar(ex.root0, ex.var) => ex.root = ex.heap0[ex.sub]
        /\ \A slot \in ReachableSlots(ex.root0, ex.heap0) :
              IF IsVar(ex.heap0[SlotPtr([root |-> ex.root0, heap |-> ex.heap0], slot)], ex.var)
              THEN SlotPtr(ex, slot) = ex.sub
              ELSE SlotPtr(ex, slot) = SlotPtr([root |-> ex.root0, heap |-> ex.heap0], slot)

\* Node 5 = x + x is a kid of self and of node 6, which is a kid of self too.
C20_Witness ==
    /\ ex.pc = "done"
    /\ ex.var = "x"
    /\ ex.sub = 4
    /\ ex.root0 = ExprBin("Add", 6, 5)
    /\ ex.heap0[5].kids = <<1, 1>>
    /\ ex.heap0[6].kids = <<1, 5>>
    /\ ex.heap[5].kids = <<4, 4>>
    /\ ex.heap[6].kids = <<4, 5>>

\* The nodes of the expression whose Rc is ptr.
NodesOf(ptr, heap) == ReachFrom({ptr}, heap, Len(heap))

\* The number of nodes of self, self included.
NodeCount(root, heap) == 1 + Cardinality(Reachable(root, heap))

\* A step of substitute_impl that calls itself on the Rcs of the node.
Descends == ex.pc = "impl" /\ ex'.pc = "impl" /\ Len(ex'.stack) >= Len(ex.stack)

\* C21: within one call of substitute, substitute_impl descends into the
\* kids of a node behind an Rc at most once: it descends only on a pointer
\* that visited does not hold, pushes it, and visited never loses a pointer.
\* The call allocates no node: self has at most as many nodes afterwards as
\* self and the replacement had before.
C21_DescendsOnceNoCopies ==
    /\ [](/\ \A x, y \in DOMAIN ex.visited : ex.visited[x] = ex.visited[y] => x = y
          /\ Len(ex.heap) = Len(ex.heap0)
          /\ ex.pc = "done" =>
                NodeCount(ex.root, ex.heap)
                    <= NodeCount(ex.root0, ex.heap0)
                           + Cardinality(NodesOf(ex.sub, ex.heap0)))
    /\ [][/\ SubSeq(ex'.visited, 1, Len(ex.visited)) = ex.visited
          /\ Descends =>
                LET ptr == SlotPtr(ex, Head(ex.stack))
                IN  /\ \A x \in DOMAIN ex.visited : ex.visited[x] # ptr
                    /\ ex'.visited = Append(ex.visited, ptr)]_vars

\* Node 5 = x + y is a kid of self and twice a kid of node 6; it is
\* descended into from self only.
C21_Witness ==
    /\ ex.pc = "done"
    /\ ex.var = "x"
    /\ ex.sub = 4
    /\ ex.root0 = ExprBin("Add", 5, 6)
    /\ ex.heap0[5].kids = <<1, 2>>
    /\ ex.heap0[6].kids = <<5, 5>>
    /\ ex.visited = <<5, 1, 2, 6>>
    /\ ex.heap[5].kids = <<4, 2>>
    /\ NodeCount(ex.root, ex.heap) = 6

(***************************************************************************)
(* The operators of Polynomial, each applied to parsed polynomials.        *)
(***************************************************************************)
RECURSIVE ZeroIdealFrom(_, _, _, _)
\* The loop of ZeroIdeal::init from the even number i on.
ZeroIdealFrom(i, d, gen, n) ==
    LET total == d + trailing_zeros(i)
    IN  IF n <= total THEN Append(gen, PolyTruncate(LinearProduct(i, n)))
        ELSE ZeroIdealFrom(i + 2, total, Append(gen, Generator(i, n - total, n)), n)

\* ZeroIdeal::init: the generators, the one of the highest degree last.
ZeroIdeal(n) == ZeroIdealFrom(2, 0, <<>>, n)

\* The frame of a call of an operator of Polynomial on p and q.
PolyCall(p, q, n) ==
    [pc |-> "call", op |-> "none", n |-> n, p |-> p, q |-> q, r |-> <<>>]

\* Lines 441-462: p.simplify(zi).  len() - 1 underflows on an empty p.
PolySimplify ==
    /\ pl.pc = "call"
    /\ pl' = IF pl.p = <<>>
             THEN [pl EXCEPT !.pc = "panicked", !.op = "simplify"]
             ELSE [pl EXCEPT !.pc = "done", !.op = "simplify",
                             !.r = simplified(pl.p, ZeroIdeal(pl.n), pl.n)]
    /\ UNCHANGED <<sc, dg, sv, rw, ob, pp, bi, ex, lx, sm, tm>>

\* The coefficients of the polynomials that are simplified.
SimplifyCoeffs(n) ==
    IF n <= 2 THEN Mn(n) ELSE {zero, one, 2^(n - 1), sub(zero, one, n)}

\* Coefficient vectors of 1 to len coefficients, trailing zeros included.
CoeffVectors(len, n) == UNION {[1 .. k -> SimplifyCoeffs(n)] : k \in 1 .. len}

InitSimplify ==
    /\ \E n \in 1 .. MaxBits :
          \E p \in CoeffVectors(MaxPolyLen + 1, n) \cup {<<>>} : pl = PolyCall(p, <<>>, n)
    /\ sc = ScalarIdle
    /\ dg = DiagIdle
    /\ sv = SolveIdle
    /\ rw = RewriteIdle
    /\ ob = NotCalled /\ pp = NotCalled /\ bi = NotCalled /\ ex = NotCalled
    /\ lx = NotCalled /\ sm = NotCalled /\ tm = NotCalled

SpecSimplify == InitSimplify /\ [][PolySimplify]_vars

\* C23: simplify gives a canonical representative.  Every polynomial q with
\* at least one coefficient that has the value of p at every element of
\* Z/2^n simplifies to the coefficient vector p simplifies to; a p that is
\* zero everywhere simplifies to the zero polynomial, the empty vector.
C23_SimplifyIsCanonical ==
    (pl.pc = "done" /\ pl.op = "simplify") =>
        LET f == [x \in Mn(pl.n) |-> PolyEval(pl.p, x, pl.n)]
        IN  /\ \A q \in CoeffVectors(3, pl.n) :
                  (\A x \in Mn(pl.n) : PolyEval(q, x, pl.n) = f[x])
                      => simplified(q, ZeroIdeal(pl.n), pl.n) = pl.r
            /\ (\A x \in Mn(pl.n) : f[x] = zero) => pl.r = <<>>

\* 2 X^4 + 2 X^2 at 2 bits is zero everywhere: 2 X^2 (X^2 + 1) is even, and
\* one of X^2 and X^2 + 1 is.  It is simplified with both generators.
C23_Witness ==
    /\ pl.pc = "done" /\ pl.op = "simplify"
    /\ pl.n = 2
    /\ pl.p = <<0, 0, 2, 0, 2>>
    /\ pl.r = <<>>

\* Add-assign of a borrowed polynomial, for an rhs that is at least as long.
PolyAddAssign(p, rhs, w) ==
    Coeffs([i \in 1 .. Len(rhs) |-> IF i <= Len(p) THEN add(p[i], rhs[i], w) ELSE rhs[i]],
           Len(rhs))

\* Sub for &Polynomial: the differences of the coefficients both have, then
\* the remaining coefficients of the longer operand as they are.
PolySub(p, rhs, w) ==
    LET len == IF Len(p) >= Len(rhs) THEN Len(p) ELSE Len(rhs)
    IN  Coeffs([i \in 1 .. len |->
                   IF i <= Len(p) /\ i <= Len(rhs) THEN sub(p[i], rhs[i], w)
                   ELSE IF i <= Len(p) THEN p[i] ELSE rhs[i]],
               len)

\* Lines 244-267: &p - &q.
PolyOpSub ==
    /\ pl.pc = "call"
    /\ pl' = [pl EXCEPT !.pc = "done", !.op = "sub", !.r = PolySub(pl.p, pl.q, pl.n)]
    /\ UNCHANGED <<sc, dg, sv, rw, ob, pp, bi, ex, lx, sm, tm>>

\* Lines 220-232: p += &q.  The slice rhs.coeffs[self.len()..] panics when
\* self has more coefficients than rhs.
PolyOpAddAssign ==
    /\ pl.pc = "call"
    /\ pl' = IF Len(pl.p) > Len(pl.q)
             THEN [pl EXCEPT !.pc = "panicked", !.op = "add_assign"]
             ELSE [pl EXCEPT !.pc = "done", !.op = "add_assign",
                             !.r = PolyAddAssign(pl.p, pl.q, pl.n)]
    /\ UNCHANGED <<sc, dg, sv, rw, ob, pp, bi, ex, lx, sm, tm>>

\* Lines 269-281: p -= &q, with the same slice.
PolyOpSubAssign ==
    /\ pl.pc = "call"
    /\ pl' = IF Len(pl.p) > Len(pl.q)
             THEN [pl EXCEPT !.pc = "panicked", !.op = "sub_assign"]
             ELSE [pl EXCEPT !.pc = "done", !.op = "sub_assign",
                             !.r = PolySubAssign(pl.p, pl.q, pl.n)]
    /\ UNCHANGED <<sc, dg, sv, rw, ob, pp, bi, ex, lx, sm, tm>>

\* Lines 187-207: compose(&p, &q, &zi).
PolyOpCompose ==
    /\ pl.pc = "call"
    /\ LET r == compose(pl.p, pl.q, ZeroIdeal(pl.n), pl.n)
       IN  pl' = IF r = Unwound
                 THEN [pl EXCEPT !.pc = "panicked", !.op = "compose"]
                 ELSE [pl EXCEPT !.pc = "done", !.op = "compose", !.r = r]
    /\ UNCHANGED <<sc, dg, sv, rw, ob, pp, bi, ex, lx, sm, tm>>

NextPoly == PolyOpSub \/ PolyOpAddAssign \/ PolyOpSubAssign \/ PolyOpCompose

\* The widths of the operands.
PolyWidths == 1 .. (MaxBits - 1)

InitPoly ==
    /\ \E n \in PolyWidths :
          \E p \in CoeffVectors(MaxPolyLen - 1, n) \cup {<<>>},
             q \in CoeffVectors(3, n) \cup {<<>>} : pl = PolyCall(p, q, n)
    /\ sc = ScalarIdle
    /\ dg = DiagIdle
    /\ sv = SolveIdle
    /\ rw = RewriteIdle
    /\ ob = NotCalled /\ pp = NotCalled /\ bi = NotCalled /\ ex = NotCalled
    /\ lx = NotCalled /\ sm = NotCalled /\ tm = NotCalled

SpecPoly == InitPoly /\ [][NextPoly]_vars

\* The call of the operator op has returned or panicked.
PolyEnded(op) == pl.pc \in {"done", "panicked"} /\ pl.op = op

\* C27: compose(p, q, zi) returns, for all polynomials p and q, a polynomial
\* whose value at every x of Z/2^n is p.eval(q.eval(x)).
C27_ComposeEvaluatesAsNested ==
    PolyEnded("compose") =>
        /\ pl.pc = "done"
        /\ \A x \in Mn(pl.n) :
              PolyEval(pl.r, x, pl.n) = PolyEval(pl.p, PolyEval(pl.q, x, pl.n), pl.n)

\* The same for the calls that return.
C27_ReturnedComposeEvaluatesAsNested ==
    (PolyEnded("compose") /\ pl.pc = "done") =>
        \A x \in Mn(pl.n) :
            PolyEval(pl.r, x, pl.n) = PolyEval(pl.p, PolyEval(pl.q, x, pl.n), pl.n)

\* The coefficient of X^(i - 1), zero when the vector does not hold it.
Coef(p, i) == IF i <= Len(p) THEN p[i] ELSE zero

\* The longer of the two coefficient vectors.
MaxLen(p, q) == IF Len(p) >= Len(q) THEN Len(p) ELSE Len(q)

\* C29: for polynomials p and q of any lengths, q longer than p included,
\* the coefficient i of &p - &q is p_i - q_i modulo 2^n, a missing
\* coefficient counting as 0, which is what p -= &q computes.
C29_SubIsCoefficientwise ==
    PolyEnded("sub") =>
        /\ Len(pl.r) = MaxLen(pl.p, pl.q)
        /\ \A i \in 1 .. MaxLen(pl.p, pl.q) :
              pl.r[i] = sub(Coef(pl.p, i), Coef(pl.q, i), pl.n)
        /\ Len(pl.p) <= Len(pl.q) => pl.r = PolySubAssign(pl.p, pl.q, pl.n)

\* C30: for polynomials p and q of any lengths, p longer than q included,
\* p += &q and p -= &q return, and leave in p the sums, respectively the
\* differences, of the coefficients of the two polynomials.
C30_AssignOpsComplete ==
    /\ PolyEnded("add_assign") =>
          /\ pl.pc = "done"
          /\ Len(pl.r) = MaxLen(pl.p, pl.q)
          /\ \A i \in 1 .. MaxLen(pl.p, pl.q) :
                pl.r[i] = add(Coef(pl.p, i), Coef(pl.q, i), pl.n)
    /\ PolyEnded("sub_assign") =>
          /\ pl.pc = "done"
          /\ Len(pl.r) = MaxLen(pl.p, pl.q)
          /\ \A i \in 1 .. MaxLen(pl.p, pl.q) :
                pl.r[i] = sub(Coef(pl.p, i), Coef(pl.q, i), pl.n)

(***************************************************************************)
(* Display for LUExpr and LUExpr::from_string.  A text is a sequence of    *)
(* characters.                                                             *)
(***************************************************************************)
\* The characters of the decimal digits 0 to 9.
DigitChars == <<"0", "1", "2", "3", "4", "5", "6", "7", "8", "9">>

\* char::is_ascii_digit
is_ascii_digit(c) == \E d \in DOMAIN DigitChars : DigitChars[d] = c

\* char::is_alphabetic, on the letters of the variables.
is_alphabetic(c) == c \in {"a", "b", "c", "x", "y", "z"}

\* char::is_alphanumeric
is_alphanumeric(c) == is_alphabetic(c) \/ is_ascii_digit(c)

RECURSIVE Decimal(_)
\* Display for the integer: the decimal digits of the representative.
Decimal(x) ==
    IF x < 10 THEN <<DigitChars[x + 1]>>
    ELSE Append(Decimal(x \div 10), DigitChars[(x % 10) + 1])

\* UExpr::is_unary
is_unary(e) == e.op \in {"Ones", "Var", "Not"}

\* The character of a binary operator.
OpChar(op) == CASE op = "And" -> "&" [] op = "Or" -> "|" [] op = "Xor" -> "^"

RECURSIVE UExprDisplay(_)
\* Display for UExpr, with write_safe for the binary operators.
UExprDisplay(e) ==
    CASE e.op = "Ones" -> <<"-", "1">>
      [] e.op = "Var" -> <<e.name>>
      [] e.op = "Not" ->
            IF is_unary(e.args[1]) THEN <<"~">> \o UExprDisplay(e.args[1])
            ELSE <<"~", "(">> \o UExprDisplay(e.args[1]) \o <<")">>
      [] OTHER ->
            (IF is_unary(e.args[1]) THEN UExprDisplay(e.args[1]) \o <<" ", OpChar(e.op)>>
             ELSE <<"(">> \o UExprDisplay(e.args[1]) \o <<")", " ", OpChar(e.op)>>)
            \o (IF is_unary(e.args[2]) THEN <<" ">> \o UExprDisplay(e.args[2])
                ELSE <<" ", "(">> \o UExprDisplay(e.args[2]) \o <<")">>)

\* The closure fmt_term of Display for LUExpr.
fmt_term(i, e) ==
    IF i = one THEN UExprDisplay(e)
    ELSE IF is_unary(e) THEN Decimal(i) \o <<"*">> \o UExprDisplay(e)
    ELSE Decimal(i) \o <<"*", "(">> \o UExprDisplay(e) \o <<")">>

RECURSIVE DisplayRest(_, _, _)
\* The loop of Display for LUExpr over the terms after the first.
DisplayRest(terms, k, w) ==
    IF k > Len(terms) THEN <<>>
    ELSE LET i == terms[k][1]
         IN  (IF print_negative(i, w)
              THEN <<" ", "-", " ">> \o fmt_term(sub(zero, i, w), terms[k][2])
              ELSE <<" ", "+", " ">> \o fmt_term(i, terms[k][2]))
             \o DisplayRest(terms, k + 1, w)

\* Display for LUExpr: the terms with a coefficient that is not zero.
LUExprDisplay(l, w) ==
    LET terms == SelectSeq(l, LAMBDA t : t[1] # zero)
    IN  IF terms = <<>> THEN <<"0">>
        ELSE LET i == terms[1][1]
             IN  (IF print_negative(i, w)
                  THEN <<"-">> \o fmt_term(sub(zero, i, w), terms[1][2])
                  ELSE fmt_term(i, terms[1][2]))
                 \o DisplayRest(terms, 2, w)

\* What a parser returns when it fails, and when it has read e (or num) and
\* left the characters it.
ParseFailed == [ok |-> FALSE]

Parsed(e, it) == [ok |-> TRUE, e |-> e, it |-> it]

RECURSIVE int_from_digits(_, _, _)
\* The digits at the front of it, read in base 10 and reduced modulo 2^w.
int_from_digits(it, num, w) ==
    IF it # <<>> /\ is_ascii_digit(Head(it))
    THEN int_from_digits(Tail(it),
                         (num * 10 + (CHOOSE d \in 0 .. 9 : DigitChars[d + 1] = Head(it)))
                             % Modulus(w), w)
    ELSE Parsed(num, it)

\* int_from_it: the base-10 literal at the front of the characters.
int_from_it(it, w) ==
    IF it # <<>> /\ is_ascii_digit(Head(it)) THEN int_from_digits(it, zero, w)
    ELSE ParseFailed

RECURSIVE VarName(_, _)
\* Lines 357-368 of UExpr::parse: the alphanumeric characters of a name.
VarName(var, it) ==
    IF it # <<>> /\ is_alphanumeric(Head(it)) THEN VarName(Append(var, Head(it)), Tail(it))
    ELSE Parsed(Var(IF Len(var) = 1 THEN var[1] ELSE var), it)

RECURSIVE UExprParse(_, _)
RECURSIVE UExprParseLoop(_, _, _)
\* Lines 385-414: the binary operators after e, by precedence.
UExprParseLoop(e, it, pre) ==
    IF it = <<>> THEN Parsed(e, it)
    ELSE LET c == Head(it)
             op_pre == CASE c = "|" -> 1 [] c = "^" -> 2 [] c = "&" -> 3 [] OTHER -> 0
         IN  IF op_pre = 0 \/ op_pre <= pre THEN Parsed(e, it)
             ELSE LET rhs == UExprParse(Tail(it), op_pre)
                  IN  IF ~rhs.ok THEN ParseFailed
                      ELSE UExprParseLoop(CASE c = "&" -> And(e, rhs.e)
                                            [] c = "|" -> Or(e, rhs.e)
                                            [] c = "^" -> Xor(e, rhs.e),
                                          rhs.it, pre)

\* UExpr::parse
UExprParse(it, pre) ==
    IF it = <<>> THEN ParseFailed
    ELSE LET c == Head(it)
             e == IF c = "("
                  THEN LET i == UExprParse(Tail(it), 0)
                       IN  IF i.ok /\ i.it # <<>> /\ Head(i.it) = ")"
                           THEN Parsed(i.e, Tail(i.it)) ELSE ParseFailed
                  ELSE IF c = "~" \/ c = "!"
                  THEN LET i == UExprParse(Tail(it), 15)
                       IN  IF i.ok THEN Parsed(Not(i.e), i.it) ELSE ParseFailed
                  ELSE IF is_alphabetic(c) THEN VarName(<<c>>, Tail(it))
                  ELSE IF c = "-"
                  THEN IF Len(it) >= 2 /\ it[2] = "1"
                       THEN Parsed(Ones, SubSeq(it, 3, Len(it))) ELSE ParseFailed
                  ELSE ParseFailed
         IN  IF e.ok THEN UExprParseLoop(e.e, e.it, pre) ELSE ParseFailed

RECURSIVE FromStringLoop(_, _, _, _)
\* Lines 117-127: after a summand a + or a - goes on, the end of the text
\* returns, anything else fails.
FromStringNext(it, v, w) ==
    IF it = <<>> THEN Some(v)
    ELSE IF Head(it) = "+" THEN FromStringLoop(Tail(it), v, FALSE, w)
    ELSE IF Head(it) = "-" THEN FromStringLoop(Tail(it), v, TRUE, w)
    ELSE None

\* Lines 69-115: one summand of the loop of LUExpr::from_string.
FromStringLoop(it, v, neg0, w) ==
    IF it = <<>> THEN Some(v)
    ELSE LET neg == neg0 \/ Head(it) = "-"
             rest == IF Head(it) = "-" THEN Tail(it) ELSE it
         IN  IF rest = <<>> THEN None
             ELSE IF is_ascii_digit(Head(rest))
             THEN LET lit == int_from_it(rest, w)
                      num == IF neg THEN sub(zero, lit.e, w) ELSE lit.e
                  IN  IF lit.it # <<>> /\ Head(lit.it) = "*"
                      THEN LET e == UExprParse(Tail(lit.it), 0)
                           IN  IF ~e.ok THEN None
                               ELSE FromStringNext(e.it, Append(v, <<num, e.e>>), w)
                      ELSE FromStringNext(lit.it, Append(v, <<sub(zero, num, w), Ones>>), w)
             ELSE LET e == UExprParse(rest, 0)
                      sign == IF neg THEN sub(zero, one, w) ELSE one
                  IN  IF ~e.ok THEN None
                      ELSE FromStringNext(e.it, Append(v, <<sign, e.e>>), w)

\* LUExpr::from_string: the white space is dropped first.
from_string(s, w) == FromStringLoop(SelectSeq(s, LAMBDA c : c # " "), <<>>, FALSE, w)

\* The frame of a print of the LUExpr e followed by a parse of the text.
RoundTripEntry(e, n) == [pc |-> "display", n |-> n, e |-> e, s |-> <<>>, ret |-> None]

\* Lines 171-212: the LUExpr is formatted.
LUExprFmt ==
    /\ lx.pc = "display"
    /\ lx' = [lx EXCEPT !.pc = "parse", !.s = LUExprDisplay(lx.e, lx.n)]
    /\ UNCHANGED <<sc, dg, sv, rw, ob, pp, bi, ex, pl, sm, tm>>

\* Lines 58-129: the text is parsed.
LUExprFromString ==
    /\ lx.pc = "parse"
    /\ lx' = [lx EXCEPT !.pc = "done", !.ret = from_string(lx.s, lx.n)]
    /\ UNCHANGED <<sc, dg, sv, rw, ob, pp, bi, ex, pl, sm, tm>>

NextRoundTrip == LUExprFmt \/ LUExprFromString

\* The UExprs of the terms.
UExprBank ==
    {Ones, Var("x"), Var("y"), Not(Var("x")), And(Var("x"), Var("y")),
     Or(Var("x"), Not(Var("y"))), Xor(And(Var("x"), Var("y")), Var("x")),
     Not(And(Var("x"), Var("y"))), And(Ones, Var("x")), Not(Ones)}

\* The coefficients of the terms: every residue at a small width, and the
\* ones around the sign change and with several digits at 8 bits.
TermCoeffs(n) == IF n < U8 THEN Mn(n) ELSE {0, 1, 2, 10, 127, 128, 129, 255}

\* LUExprs of up to two terms.
LUExprBank(n) ==
    LET terms == TermCoeffs(n) \X UExprBank
    IN  {<<>>} \cup {<<t>> : t \in terms} \cup {<<t, u>> : t \in terms, u \in terms}

InitRoundTrip ==
    /\ \E n \in {MaxBits, U8} : \E e \in LUExprBank(n) : lx = RoundTripEntry(e, n)
    /\ sc = ScalarIdle
    /\ dg = DiagIdle
    /\ sv = SolveIdle
    /\ rw = RewriteIdle
    /\ ob = NotCalled /\ pp = NotCalled /\ bi = NotCalled /\ ex = NotCalled
    /\ pl = NotCalled /\ sm = NotCalled /\ tm = NotCalled

SpecRoundTrip == InitRoundTrip /\ [][NextRoundTrip]_vars

\* The values the variables take: every residue at a small width.
RoundTripValues(n) ==
    IF n < U8 THEN Mn(n) ELSE {zero, one, 2^(n - 1) + 1, sub(zero, one, n)}

\* The parsed LUExpr has the value of e under every valuation.
SameValue(parsed, e, n) ==
    \A val \in [{"x", "y"} -> RoundTripValues(n)] :
        LUExprEval(parsed, val, n) = LUExprEval(e, val, n)

RECURSIVE HasOnes(_)
\* Ones occurs in the UExpr.
HasOnes(u) == u.op = "Ones" \/ \E k \in DOMAIN u.args : HasOnes(u.args[k])

\* C24: for every LUExpr e, from_string of the text Display gives for e
\* succeeds, and the LUExpr it returns has the value of e under every
\* valuation; so for a term with the UExpr Ones whose coefficient is printed
\* as negative, first or later in the sum.
C24_ParseOfDisplayIsEquivalent ==
    lx.pc = "done" => lx.ret # None /\ SameValue(lx.ret[1], lx.e, lx.n)

\* The same for the LUExprs without Ones.
C24_ParseOfDisplayWithoutOnes ==
    (lx.pc = "done" /\ \A k \in DOMAIN lx.e : ~HasOnes(lx.e[k][2])) =>
        lx.ret # None /\ SameValue(lx.ret[1], lx.e, lx.n)

(***************************************************************************)
(* solve_scalar_congruence_mod(a, b, n) on the integers of w bits.         *)
(***************************************************************************)
\* The frame of a call; n is not zero (line 260).
ScalarModEntry(a, b, n, w) ==
    [pc |-> "entry", w |-> w, a |-> a, b |-> b, n |-> n,
     old_r |-> zero, r |-> zero, old_t |-> zero, t |-> zero, ret |-> None]

\* Lines 262-264: a = 0 returns at once.
ScalarModZero ==
    /\ sm.pc = "entry"
    /\ sm.a = zero
    /\ sm' = [sm EXCEPT !.pc = "done", !.ret = ScalarZeroCase(sm.b)]
    /\ UNCHANGED <<sc, dg, sv, rw, ob, pp, bi, ex, pl, lx, tm>>

\* Lines 266-267: the locals are set up.
ScalarModEnter ==
    /\ sm.pc = "entry"
    /\ sm.a # zero
    /\ sm' = [sm EXCEPT !.pc = "loop", !.old_r = sm.a, !.r = sm.n,
                        !.old_t = zero, !.t = one]
    /\ UNCHANGED <<sc, dg, sv, rw, ob, pp, bi, ex, pl, lx, tm>>

\* Lines 268-272: one pass of the loop, in the arithmetic of T.
ScalarModLoop ==
    /\ sm.pc = "loop"
    /\ sm.r # zero
    /\ LET q == div(sm.old_r, sm.r)
       IN  sm' = [sm EXCEPT !.old_r = sm.r,
                            !.r = sub(sm.old_r, mul(q, sm.r, sm.w), sm.w),
                            !.old_t = sm.t,
                            !.t = sub(sm.old_t, mul(q, sm.t, sm.w), sm.w)]
    /\ UNCHANGED <<sc, dg, sv, rw, ob, pp, bi, ex, pl, lx, tm>>

\* Lines 274-293: the candidate is tested and the result returned.
ScalarModReturn ==
    /\ sm.pc = "loop"
    /\ sm.r = zero
    /\ LET gcd == sm.old_r
           x == mul(div(sm.b, gcd), sm.old_t, sm.w)
       IN  sm' = [sm EXCEPT !.pc = "done",
                            !.ret = IF mul(sm.a, x, sm.w) # sm.b THEN None
                                    ELSE Some(<<x, sm.t>>)]
    /\ UNCHANGED <<sc, dg, sv, rw, ob, pp, bi, ex, pl, lx, tm>>

NextScalarMod == ScalarModZero \/ ScalarModEnter \/ ScalarModLoop \/ ScalarModReturn

InitScalarMod ==
    /\ \E a \in Mn(MaxBits), b \in Mn(MaxBits), n \in Mn(MaxBits) \ {zero} :
          sm = ScalarModEntry(a, b, n, MaxBits)
    /\ sc = ScalarIdle
    /\ dg = DiagIdle
    /\ sv = SolveIdle
    /\ rw = RewriteIdle
    /\ ob = NotCalled /\ pp = NotCalled /\ bi = NotCalled /\ ex = NotCalled
    /\ pl = NotCalled /\ lx = NotCalled /\ tm = NotCalled

SpecScalarMod == InitScalarMod /\ [][NextScalarMod]_vars

\* The residues x modulo n with a*x = b (mod n).
SolutionsMod(a, b, n) == {x \in 0 .. (n - 1) : (a * x) % n = b % n}

\* C25: solve_scalar_congruence_mod(a, b, n) returns None only if
\* a*x = b (mod n) has no solution, and otherwise (c, d) such that the
\* c + d*i are exactly the solutions modulo n.
C25_ModSolverIsExact ==
    sm.pc = "done" =>
        IF sm.ret = None THEN SolutionsMod(sm.a, sm.b, sm.n) = {}
        ELSE {(sm.ret[1][1] + sm.ret[1][2] * i) % sm.n : i \in 0 .. (sm.n - 1)}
                 = SolutionsMod(sm.a, sm.b, sm.n)

(***************************************************************************)
(* Matrix::try_map, as solve_congruences_impl calls it on the texts of the *)
(* entries.                                                                *)
(***************************************************************************)
\* from_str_radix(e, 10) of the integers of w bits: the value of a text of
\* digits, None for any other text.
from_str_radix(e, w) ==
    IF e # <<>> /\ \A k \in DOMAIN e : is_ascii_digit(e[k])
    THEN Some(int_from_digits(e, zero, w).e) ELSE None

\* The frame of a call of m.try_map(f).
TryMapEntry(mat, w) ==
    [pc |-> "loop", w |-> w, m |-> mat, v |-> <<>>, ret |-> None, msg |-> <<>>]

\* Lines 112-114: f returns Ok for the next entry; it is pushed.
TryMapPush ==
    /\ tm.pc = "loop"
    /\ Len(tm.v) < tm.m.rows * tm.m.cols
    /\ from_str_radix(tm.m.entries[Len(tm.v)], tm.w) # None
    /\ tm' = [tm EXCEPT !.v = Append(tm.v, from_str_radix(tm.m.entries[Len(tm.v)], tm.w)[1])]
    /\ UNCHANGED <<sc, dg, sv, rw, ob, pp, bi, ex, pl, lx, sm>>

\* Lines 115-119: f returns Err; the place of the entry is computed from the
\* number of entries pushed and returned.
TryMapErr ==
    /\ tm.pc = "loop"
    /\ Len(tm.v) < tm.m.rows * tm.m.cols
    /\ from_str_radix(tm.m.entries[Len(tm.v)], tm.w) = None
    /\ LET row == Len(tm.v) \div tm.m.rows
           col == Len(tm.v) % tm.m.cols
       IN  tm' = [tm EXCEPT !.pc = "err", !.ret = <<row, col>>]
    /\ UNCHANGED <<sc, dg, sv, rw, ob, pp, bi, ex, pl, lx, sm>>

\* Lines 123-127: every entry is mapped; the matrix is returned.
TryMapOk ==
    /\ tm.pc = "loop"
    /\ Len(tm.v) = tm.m.rows * tm.m.cols
    /\ tm' = [tm EXCEPT !.pc = "ok",
                        !.ret = Matrix(tm.m.rows, tm.m.cols,
                                       [x \in Indices(tm.m.rows, tm.m.cols) |-> tm.v[x + 1]])]
    /\ UNCHANGED <<sc, dg, sv, rw, ob, pp, bi, ex, pl, lx, sm>>

\* Lines 61-62 of linear_congruences.rs: the error becomes the message
\* "Failed to parse entry (r+1, c+1)."
ParseErrorMessage ==
    /\ tm.pc = "err"
    /\ tm' = [tm EXCEPT !.pc = "reported", !.msg = <<tm.ret[1] + 1, tm.ret[2] + 1>>]
    /\ UNCHANGED <<sc, dg, sv, rw, ob, pp, bi, ex, pl, lx, sm>>

NextTryMap == TryMapPush \/ TryMapErr \/ TryMapOk \/ ParseErrorMessage

\* The texts of the entries: a number and a text that is none.
EntryTexts == {<<"1", "2">>, <<"x">>}

InitTryMap ==
    /\ \E r \in 1 .. MaxDim, c \in 1 .. MaxDim :
          \E entries \in [Indices(r, c) -> EntryTexts] :
              tm = TryMapEntry(Matrix(r, c, entries), U8)
    /\ sc = ScalarIdle
    /\ dg = DiagIdle
    /\ sv = SolveIdle
    /\ rw = RewriteIdle
    /\ ob = NotCalled /\ pp = NotCalled /\ bi = NotCalled /\ ex = NotCalled
    /\ pl = NotCalled /\ lx = NotCalled /\ sm = NotCalled

SpecTryMap == InitTryMap /\ [][NextTryMap]_vars

\* The index, in the order of the rows, of the first entry that f fails on.
FirstFailure(mat, w) ==
    CHOOSE k \in Indices(mat.rows, mat.cols) :
        /\ from_str_radix(mat.entries[k], w) = None
        /\ \A j \in 0 .. (k - 1) : from_str_radix(mat.entries[j], w) # None

\* C26: when f fails for the first time at the entry in row r and column c
\* of an R x C matrix, square or not, try_map returns Err((r, c, e)) and the
\* page reports the entry (r + 1, c + 1).
C26_ErrorNamesTheEntry ==
    tm.pc \in {"err", "reported"} =>
        LET k == FirstFailure(tm.m, tm.w)
            r == k \div tm.m.cols
            c == k % tm.m.cols
        IN  /\ tm.ret = <<r, c>>
            /\ tm.pc = "reported" => tm.msg = <<r + 1, c + 1>>

\* The same for the square matrices.
C26_ErrorNamesTheEntryOfSquare ==
    (tm.pc \in {"err", "reported"} /\ tm.m.rows = tm.m.cols) => C26_ErrorNamesTheEntry

InitScalar ==
    /\ \E n \in ScalarWidths : \E a \in Mn(n), b \in Mn(n) :
          sc = [pc |-> "entry", n |-> n, a |-> a, b |-> b,
                st |-> EuclidUnset, ret |-> None]
    /\ dg = DiagIdle
    /\ sv = SolveIdle
    /\ rw = RewriteIdle
    /\ ExtIdle

\* Lines 51-53: a = 0 returns at once.
ScalarZero ==
    /\ sc.pc = "entry"
    /\ sc.a = zero
    /\ sc' = [sc EXCEPT !.pc = "done", !.ret = ScalarZeroCase(sc.b)]
    /\ UNCHANGED <<dg, sv, rw, ext>>

\* Lines 63-65: the locals are set up and the loop is entered.
ScalarEnter ==
    /\ sc.pc = "entry"
    /\ sc.a # zero
    /\ sc' = [sc EXCEPT !.pc = "loop", !.st = EuclidInit(sc.a, sc.n)]
    /\ UNCHANGED <<dg, sv, rw, ext>>

\* Lines 67-74: one pass of the loop.
ScalarLoop ==
    /\ sc.pc = "loop"
    /\ LET u == EuclidUpdate(sc.st, sc.n)
       IN  sc' = IF u.r = zero
                 THEN [sc EXCEPT !.pc = "check", !.st = u]
                 ELSE [sc EXCEPT !.st = EuclidQuotient(u)]
    /\ UNCHANGED <<dg, sv, rw, ext>>

\* Lines 77-91: the candidate is tested and the result returned.
ScalarReturn ==
    /\ sc.pc = "check"
    /\ sc' = [sc EXCEPT !.pc = "done",
                        !.ret = ScalarResult(sc.a, sc.b, sc.st, sc.n)]
    /\ UNCHANGED <<dg, sv, rw, ext>>

NextScalar == ScalarZero \/ ScalarEnter \/ ScalarLoop \/ ScalarReturn

SpecScalar == InitScalar /\ [][NextScalar]_vars

ScalarDone == sc.pc = "done"

ScalarSome == ScalarDone /\ sc.ret # None

RetX == sc.ret[1][1]

RetK == sc.ret[1][2]

\* C1: when solve_scalar_congruence(a, b) returns Some((x, k)), a*x = b and
\* a*(x + t*k) = b for every t of Z/2^n.
C1_ReturnedPairSolves ==
    ScalarSome =>
        /\ mul(sc.a, RetX, sc.n) = sc.b
        /\ \A t \in Mn(sc.n) :
              mul(sc.a, add(RetX, mul(t, RetK, sc.n), sc.n), sc.n) = sc.b

\* A returned pair with a kernel that is not trivial, at 8 bits.
C1_Witness ==
    ScalarSome /\ sc.n = U8 /\ sc.a = 6 /\ sc.b = 4 /\ RetK \notin {0, 1}

\* C2: None is returned only when no x satisfies a*x = b; for a = 0 the
\* result is (0, 1) exactly when b = 0; solve_scalar(4, 3) at 8 bits is None.
C2_NoneOnlyWithoutSolution ==
    ScalarDone =>
        /\ sc.ret = None => \A x \in Mn(sc.n) : mul(sc.a, x, sc.n) # sc.b
        /\ sc.a = 0 => (sc.ret = Some(<<0, 1>>) <=> sc.b = 0)
        /\ (sc.n = U8 /\ sc.a = 4 /\ sc.b = 3) => sc.ret = None

\* The unsatisfiable scenario has run and returned None.
C2_Witness ==
    ScalarDone /\ sc.n = U8 /\ sc.a = 4 /\ sc.b = 3 /\ sc.ret = None

\* C3: when Some((x, k)) is returned, every solution y of a*y = b is
\* x + t*k for some t of Z/2^n.
C3_ReturnedPairIsComplete ==
    ScalarSome =>
        LET lattice == {add(RetX, mul(t, RetK, sc.n), sc.n) : t \in Mn(sc.n)}
        IN  \A y \in Mn(sc.n) : mul(sc.a, y, sc.n) = sc.b => y \in lattice

\* A congruence with several solutions, none of them the returned x alone.
C3_Witness ==
    /\ ScalarSome /\ sc.n = U8 /\ sc.a = 12 /\ sc.b = 8
    /\ Cardinality({y \in Mn(sc.n) : mul(sc.a, y, sc.n) = sc.b}) = 4

\* The greatest common divisor of a > 0 and k.
Gcd(a, k) ==
    CHOOSE d \in 1 .. a :
        /\ a % d = 0 /\ k % d = 0
        /\ \A e \in 1 .. a : (a % e = 0 /\ k % e = 0) => e <= d

\* C22: when solve_scalar_congruence(a, b) with a # 0 returns Some((x, k)),
\* k is 2^n / gcd(a, 2^n) reduced modulo 2^n; a = 6, b = 4 at 8 bits gives
\* k = 128.
C22_KernelIsModulusOverGcd ==
    (ScalarSome /\ sc.a # zero) =>
        /\ RetK = (Modulus(sc.n) \div Gcd(sc.a, Modulus(sc.n))) % Modulus(sc.n)
        /\ (sc.n = U8 /\ sc.a = 6 /\ sc.b = 4) => RetK = 128

(***************************************************************************)
(* The terms of a rewrite: the contributions c_j * d_k in the order in     *)
(* which the two loops of rewrite visit them.                              *)
(***************************************************************************)
RECURSIVE ContributionsOf(_, _, _, _)
\* The contributions of the first k terms of the operation o scaled by c.
ContributionsOf(c, o, k, w) ==
    IF k = 0 THEN <<>>
    ELSE Append(ContributionsOf(c, o, k - 1, w), <<mul(c, o[k][1], w), o[k][2]>>)

RECURSIVE ContributionsTo(_, _, _, _)
\* The contributions of the first k operations.
ContributionsTo(solution, ops, k, w) ==
    IF k = 0 THEN <<>>
    ELSE ContributionsTo(solution, ops, k - 1, w)
             \o ContributionsOf(solution[k - 1], ops[k], Len(ops[k]), w)

\* The contributions of the call of rewrite that has returned.
Contributions ==
    ContributionsTo(rw.solution, rw.ops,
                    IF Dim(rw.solution) < Len(rw.ops) THEN Dim(rw.solution) ELSE Len(rw.ops),
                    rw.n)

RECURSIVE ContributionSum(_, _, _, _)
\* The sum of the first k contributions whose UExpr is e.
ContributionSum(cs, e, k, w) ==
    IF k = 0 THEN zero
    ELSE IF cs[k][2] = e THEN add(ContributionSum(cs, e, k - 1, w), cs[k][1], w)
         ELSE ContributionSum(cs, e, k - 1, w)

\* The position of the first contribution whose UExpr is e.
FirstInsertion(cs, e) ==
    CHOOSE x \in DOMAIN cs : cs[x][2] = e /\ \A z \in 1 .. (x - 1) : cs[z][2] # e

\* C28: an LUExpr returned by rewrite has no term with a zero coefficient
\* and no two terms with equal UExprs; each term carries the sum of all
\* contributions c_j * d_k of its UExpr, every UExpr whose sum is not zero
\* has a term, and the terms stand in the order of their first insertion.
C28_TermsMergedInInsertionOrder ==
    RewriteSome =>
        LET out == rw.ret[1]
            cs  == Contributions
        IN  /\ \A x \in DOMAIN out : out[x][1] # zero
            /\ \A x, y \in DOMAIN out : out[x][2] = out[y][2] => x = y
            /\ \A x \in DOMAIN out :
                  /\ \E z \in DOMAIN cs : cs[z][2] = out[x][2]
                  /\ out[x][1] = ContributionSum(cs, out[x][2], Len(cs), rw.n)
            /\ \A z \in DOMAIN cs :
                  ContributionSum(cs, cs[z][2], Len(cs), rw.n) # zero
                      => \E x \in DOMAIN out : out[x][2] = cs[z][2]
            /\ \A x, y \in DOMAIN out :
                  x < y => FirstInsertion(cs, out[x][2]) < FirstInsertion(cs, out[y][2])

\* Two operations with non-zero coefficients contributed to the same UExpr
\* and were merged into one term, a later UExpr was interleaved between
\* them, and a term whose contributions cancel or vanish was dropped.
C28_Witness ==
    /\ RewriteSome
    /\ LET out == rw.ret[1]
           cs  == Contributions
       IN  /\ \E a, b \in DOMAIN cs :
                 /\ a < b
                 /\ cs[a][2] = cs[b][2]
                 /\ cs[a][1] # zero
                 /\ cs[b][1] # zero
                 /\ \E x \in DOMAIN out : out[x][2] = cs[a][2]
                 /\ \E z \in (a + 1) .. (b - 1) :
                       /\ cs[z][2] # cs[a][2]
                       /\ \E x \in DOMAIN out : out[x][2] = cs[z][2]
           /\ \E z \in DOMAIN cs : \A x \in DOMAIN out : out[x][2] # cs[z][2]
           /\ Len(out) >= 2

====
